---- MODULE Spec2Model ----
(***************************************************************************)
(* Model of the EKS fleet-management orchestrator:                         *)
(*   - the per-cluster step execution engine (scripts/lib/basestep.py and  *)
(*     the upgrade / summary steps built on it),                           *)
(*   - the cluster filter / matcher (scripts/lib/wfutils.py,               *)
(*     scripts/lib/automationstep.py),                                     *)
(*   - the request normalizer, target resolver and automation dispatch of  *)
(*     the lambda layer (lambdas/layer/python).                            *)
(***************************************************************************)
EXTENDS Integers, Sequences, FiniteSets, TLC

VARIABLES
    \* ---- step execution engine (one host process running one step) ----
    step,        \* which step script runs (its step name)
    clusters,    \* the InputCluster list get_relevant_clusters returned
    idx,         \* 1-based position of the for loop of BaseStep.start
    pc,          \* position of the process
    pending,     \* what is propagating: "none", "exit" (SystemExit), "exc"
    exitCode,    \* process exit code, -1 while running
    events,      \* log of the calls made, in order
    reports,     \* JSON report file of the step's report name, per cluster
    csvReports,  \* CSV report rows written by the step, per cluster
    \* ---- pure pipelines of the lambda layer and the matcher ----
    args,        \* the inputs of the call
    result,      \* what the call returned
    phase        \* "ready" before the call, "returned" after it

vars == <<step, clusters, idx, pc, pending, exitCode, events, reports,
          csvReports, args, result, phase>>

engineVars == <<step, clusters, idx, pc, pending, exitCode, events, reports,
                csvReports>>
callVars == <<args, result, phase>>

\* Python's None
None == "<None>"

\* ------------------------------------------------------------------------
\* Bounds
\* ------------------------------------------------------------------------
MaxClusters == 2

\* ------------------------------------------------------------------------
\* Generic helpers
\* ------------------------------------------------------------------------
RECURSIVE SeqsUpTo(_, _)
SeqsUpTo(S, n) ==
    IF n = 0 THEN {<<>>}
    ELSE LET shorter == SeqsUpTo(S, n - 1)
         IN shorter \cup {Append(s, x) : s \in {t \in shorter : Len(t) = n - 1}, x \in S}

\* dict[key] = value on a dict held as a function
Put(content, f, v) ==
    [g \in (DOMAIN content) \cup {f} |-> IF g = f THEN v ELSE content[g]]

EmptyContent == [f \in {} |-> None]

\* ========================================================================
\* STEP EXECUTION ENGINE
\* ========================================================================

\* Step names and report names (scripts/upgrade/constants.py,
\* scripts/summary/constants.py)
DEFAULT_STEP_NAME == "clustersUpgrade"
CONTROL_PLANE_UPGRADE_STEP == "controlPlaneUpgrade"
NODE_GROUPS_UPGRADE_STEP == "nodegroupsUpgrade"
ADDONS_UPGRADE_STEP == "addonsUpgrade"
PSP_STEP == "psp"

Steps == {CONTROL_PLANE_UPGRADE_STEP, NODE_GROUPS_UPGRADE_STEP,
          ADDONS_UPGRADE_STEP, PSP_STEP}

\* The arguments each step script passes to BaseStep.start
ReportName(s) == IF s = PSP_STEP THEN PSP_STEP ELSE DEFAULT_STEP_NAME
CheckClusterStatus(s) == s # PSP_STEP

ACTIVE_STATUS == "ACTIVE"

\* ExecutionUtility.stop(): sys.exit(1) raises SystemExit, exit code 1
ExecutionUtilityStop == [pending |-> "exit", code |-> 1]

\* Names of the clusters of the host
ClusterNames == {"a", "b"}

\* What an EKS describe/list call may give back besides a value
ApiError == "<ClientError>"
ClusterStatuses == {ACTIVE_STATUS, "UPDATING"}
EksVersions == {"1.28", "1.29", "1.37"}
DesiredVersions == {"1.29", "1.3", "1.30", "1.38"}
ExitCodes == {0, 1}

\* The value of a version string, in hundredths
VersionCenti(v) ==
    CASE v = "1.28" -> 128
      [] v = "1.29" -> 129
      [] v = "1.3" -> 130
      [] v = "1.30" -> 130
      [] v = "1.37" -> 137
      [] v = "1.38" -> 138

\* float(version): the double nearest to the decimal.  A double in [1, 2)
\* has 52 fractional bits and 2^52 = 100 * Q + 96, so the double nearest
\* to c / 100 is (c * Q + r) * 2^-52 with r = 96 * c / 100 rounded.
Float(v) ==
    [q |-> VersionCenti(v), r |-> (96 * VersionCenti(v) + 50) \div 100]

\* MIN_KUBERNETES_MINOR_VERSION = "0.01", in hundredths
MIN_KUBERNETES_MINOR_VERSION == 1

\* x + float("0.01") for x in [1, 2): float("0.01") is (128 * Q + 123) * 2^-59,
\* and the exact sum is rounded to the nearest multiple of 2^-52.
FloatAddMinor(x) ==
    [q |-> x.q + MIN_KUBERNETES_MINOR_VERSION,
     r |-> (128 * x.r + 123 + 64) \div 128]

\* ControlPlaneUpdateStep.is_version_upgradable
IsVersionUpgradable(current_version, desired_version) ==
    FloatAddMinor(Float(current_version)) = Float(desired_version)

\* ---- report files ------------------------------------------------------
NoReport == [exists |-> FALSE, content |-> EmptyContent]
ReportOf(content) == [exists |-> TRUE, content |-> content]

\* AutomationStep.json_report_file: the path of the JSON report
JsonReportFile(cluster, report_name) ==
    "reports/" \o cluster \o "/" \o report_name \o "/" \o report_name \o ".json"

\* One entry of the call log: which call ("status", "describe", "run",
\* "script", "upload"), for which cluster of the loop, its argument (a report
\* name, a script or item name, the status described) and, for a script,
\* its exit status.
EvRc(kind, arg, rc) ==
    [kind |-> kind, idx |-> idx, cluster |-> clusters[idx].cluster, arg |-> arg,
     rc |-> rc]
Ev(kind, arg) == EvRc(kind, arg, 0)

\* BaseStep.upload_reports(cluster, report_name): the call is logged
UploadReports(log, report_name) == Append(log, Ev("upload", report_name))

\* ---- Progress ----------------------------------------------------------
ProgressCounters == {"updated", "failed", "no_action", "not_active",
                     "not_requested", "not_supported"}
\* Progress(): every counter starts at zero
NewProgress == [k \in ProgressCounters |-> 0]
\* Progress.<k>_increment()
Increment(progress, k) == [progress EXCEPT ![k] = @ + 1]

\* ---- addons ------------------------------------------------------------
SUPPORTED_ADDONS_FOR_UPDATE ==
    {"vpc-cni", "coredns", "kube-proxy", "aws-ebs-csi-driver",
     "aws-efs-csi-driver", "snapshot-controller", "adot",
     "aws-guardduty-agent", "amazon-cloudwatch-observability",
     "eks-pod-identity-agent", "aws-mountpoint-s3-csi-driver"}
DEFAULT_ADDONS_FOR_UPDATE == <<"vpc-cni", "coredns", "kube-proxy">>

SeqToSet(s) == {s[i] : i \in 1..Len(s)}

\* get_addon_content
AddonContent(name, version, message, status, updated_version) ==
    [Name |-> name, Version |-> version, UpdatedVersion |-> updated_version,
     UpdateStatus |-> status, Message |-> message]

\* An addon as the EKS API and the update script present it: the details of
\* describe_addon, the version get_update_version computes, and the exit
\* status update_aws_addons.sh gives when it is run for it.
AddonRec(name, status, version, next, exit) ==
    [name |-> name, status |-> status, addonVersion |-> version,
     update_version |-> next, exit |-> exit]

\* Mutant: the exit status of the update script is not looked at
ExecuteAddonScript_ExitIgnored(addon, progress) ==
    IF addon.addonVersion = addon.update_version
    THEN [progress |-> Increment(progress, "no_action"), script |-> FALSE,
          row |-> AddonContent(addon.name, addon.addonVersion,
                               "Running with latest version", "No Action",
                               addon.update_version)]
    ELSE [progress |-> Increment(progress, "updated"), script |-> TRUE,
          row |-> AddonContent(addon.name, addon.addonVersion, "Updated",
                               "Success", addon.update_version)]

\* Addon.execute_addon_script
ExecuteAddonScript(addon, progress) ==
    IF addon.addonVersion = addon.update_version
    THEN [progress |-> Increment(progress, "no_action"), script |-> FALSE,
          row |-> AddonContent(addon.name, addon.addonVersion,
                               "Running with latest version", "No Action",
                               addon.update_version)]
    ELSE IF addon.exit = 0
    THEN [progress |-> Increment(progress, "updated"), script |-> TRUE,
          row |-> AddonContent(addon.name, addon.addonVersion, "Updated",
                               "Success", addon.update_version)]
    ELSE [progress |-> Increment(progress, "failed"), script |-> TRUE,
          row |-> AddonContent(addon.name, addon.addonVersion,
                               "Update addon script failed", "Failure",
                               addon.update_version)]

\* Mutant: the live status is looked at before the requested set
AddonUpdate_StatusFirst(addon, input_addons, progress) ==
    IF addon.status # ACTIVE_STATUS
    THEN [progress |-> Increment(progress, "not_active"), script |-> FALSE,
          row |-> AddonContent(addon.name, addon.addonVersion,
                               "Status is not ACTIVE. Manually update the addon",
                               "Update Manually", "N/A")]
    ELSE IF addon.name \notin SeqToSet(input_addons)
    THEN [progress |-> Increment(progress, "not_requested"), script |-> FALSE,
          row |-> AddonContent(addon.name, addon.addonVersion,
                               "Not present in the input addons to update",
                               "Update Manually", "N/A")]
    ELSE ExecuteAddonScript(addon, progress)

\* Addon.update
AddonUpdate(addon, input_addons, progress) ==
    IF addon.name \notin SeqToSet(input_addons)
    THEN IF addon.name \in SUPPORTED_ADDONS_FOR_UPDATE
         THEN [progress |-> Increment(progress, "not_requested"), script |-> FALSE,
               row |-> AddonContent(addon.name, addon.addonVersion,
                                    "Not present in the input addons to update",
                                    "Update Manually", "N/A")]
         ELSE [progress |-> Increment(progress, "not_supported"), script |-> FALSE,
               row |-> AddonContent(addon.name, addon.addonVersion,
                                    "Not supported. Update manually",
                                    "Update Manually", "N/A")]
    ELSE IF addon.status # ACTIVE_STATUS
    THEN [progress |-> Increment(progress, "not_active"), script |-> FALSE,
          row |-> AddonContent(addon.name, addon.addonVersion,
                               "Status is not ACTIVE. Manually update the addon",
                               "Update Manually", "N/A")]
    ELSE ExecuteAddonScript(addon, progress)

\* ---- managed node groups -----------------------------------------------
\* get_node_group_content
NodeGroupContent(name, message, status, desired_version) ==
    [Name |-> name, DesiredVersion |-> desired_version, UpdateStatus |-> status,
     Message |-> message]

NodeRec(name, status, version, exit) ==
    [name |-> name, status |-> status, version |-> version, exit |-> exit]

\* ManagedNodeGroup.update_node
UpdateNode(node, desired_eks_version, progress) ==
    IF node.exit = 0
    THEN [progress |-> Increment(progress, "updated"), script |-> TRUE,
          row |-> NodeGroupContent(node.name, "Updated", "Success",
                                   desired_eks_version)]
    ELSE [progress |-> Increment(progress, "failed"), script |-> TRUE,
          row |-> NodeGroupContent(node.name, "Update nodegroup script failed",
                                   "Failure", desired_eks_version)]

\* Mutant: a node group that already runs the desired version is not counted
NodeGroupUpdate_NoActionUncounted(node, desired_eks_version, progress) ==
    IF node.status # ACTIVE_STATUS
    THEN [progress |-> Increment(progress, "not_active"), script |-> FALSE,
          row |-> NodeGroupContent(node.name, "NodeGroup status is not ACTIVE",
                                   "Update Manually", desired_eks_version)]
    ELSE IF desired_eks_version = node.version
    THEN [progress |-> progress, script |-> FALSE,
          row |-> NodeGroupContent(node.name, "Already running desired version",
                                   "No Action", desired_eks_version)]
    ELSE UpdateNode(node, desired_eks_version, progress)

\* NodeGroup.update
NodeGroupUpdate(node, desired_eks_version, progress) ==
    IF node.status # ACTIVE_STATUS
    THEN [progress |-> Increment(progress, "not_active"), script |-> FALSE,
          row |-> NodeGroupContent(node.name, "NodeGroup status is not ACTIVE",
                                   "Update Manually", desired_eks_version)]
    ELSE IF desired_eks_version = node.version
    THEN [progress |-> Increment(progress, "no_action"), script |-> FALSE,
          row |-> NodeGroupContent(node.name, "Already running desired version",
                                   "No Action", desired_eks_version)]
    ELSE UpdateNode(node, desired_eks_version, progress)

\* ---- what the EKS API lists for a cluster ------------------------------
AddonLists ==
    { <<>>,
      <<AddonRec("coredns", ACTIVE_STATUS, "v1", "v2", 0)>>,
      <<AddonRec("coredns", ACTIVE_STATUS, "v1", "v2", 1)>>,
      <<AddonRec("coredns", ACTIVE_STATUS, "v1", "v2", 1),
        AddonRec("kube-proxy", ACTIVE_STATUS, "v1", "v2", 0)>>,
      <<AddonRec("coredns", ACTIVE_STATUS, "v2", "v2", 0),
        AddonRec("vpc-cni", "DEGRADED", "v1", "v2", 0)>>,
      <<AddonRec("adot", ACTIVE_STATUS, "v1", "v2", 0),
        AddonRec("my-addon", ACTIVE_STATUS, "v1", "v2", 0)>> }

NodeGroupLists ==
    { <<>>,
      <<NodeRec("ng1", ACTIVE_STATUS, "1.28", 0)>>,
      <<NodeRec("ng1", ACTIVE_STATUS, "1.28", 1)>>,
      <<NodeRec("ng1", ACTIVE_STATUS, "1.28", 1),
        NodeRec("ng2", ACTIVE_STATUS, "1.28", 0)>>,
      <<NodeRec("ng1", ACTIVE_STATUS, "1.29", 0),
        NodeRec("ng2", "DEGRADED", "1.28", 0)>> }

\* The for loop of AddonsUpgradeStep.run over the listed addons
RECURSIVE UpdateAddons(_, _, _, _)
UpdateAddons(addons, input_addons, i, acc) ==
    IF i > Len(addons) THEN acc
    ELSE LET r == AddonUpdate(addons[i], input_addons, acc.progress)
         IN UpdateAddons(addons, input_addons, i + 1,
                [progress |-> r.progress,
                 rows |-> Append(acc.rows, r.row),
                 log |-> IF r.script
                         THEN Append(acc.log, EvRc("script", addons[i].name, addons[i].exit))
                         ELSE acc.log])

\* The for loop of NodesUpgradeStep.run over the listed node groups
RECURSIVE UpdateNodeGroups(_, _, _, _)
UpdateNodeGroups(nodes, desired, i, acc) ==
    IF i > Len(nodes) THEN acc
    ELSE LET r == NodeGroupUpdate(nodes[i], desired, acc.progress)
         IN UpdateNodeGroups(nodes, desired, i + 1,
                [progress |-> r.progress,
                 rows |-> Append(acc.rows, r.row),
                 log |-> IF r.script
                         THEN Append(acc.log, EvRc("script", nodes[i].name, nodes[i].exit))
                         ELSE acc.log])

\* AddonsUpgradeStep.populate_existing_report: read the JSON report, assign the
\* tallies, append to Message, write it back. Reading a missing file or a
\* report without Message raises.
PopulateAddonsReport(rep, total_addons, progress, message) ==
    IF ~rep.exists \/ "Message" \notin DOMAIN rep.content
    THEN [raised |-> TRUE, report |-> rep]
    ELSE LET c0 == rep.content
             c1 == Put(c0, "TotalAddons", total_addons)
             c2 == Put(c1, "AddonsUpgraded", progress["updated"])
             c3 == Put(c2, "AddonsFailed", progress["failed"])
             c4 == Put(c3, "AddonsNotActive", progress["not_active"])
             c5 == Put(c4, "AddonsNotSupported", progress["not_supported"])
             c6 == Put(c5, "AddonsNotInInput", progress["not_requested"])
             c7 == Put(c6, "AddonsRunningLatest", progress["no_action"])
             c8 == Put(c7, "Message", Append(c0["Message"], message))
         IN [raised |-> FALSE, report |-> ReportOf(c8)]

\* NodesUpgradeStep.populate_existing_report
PopulateNodesReport(rep, total_node_groups, progress, message) ==
    IF ~rep.exists \/ "Message" \notin DOMAIN rep.content
    THEN [raised |-> TRUE, report |-> rep]
    ELSE LET c0 == rep.content
             c1 == Put(c0, "TotalNodeGroups", total_node_groups)
             c2 == Put(c1, "NodeGroupsUpdated", progress["updated"])
             c3 == Put(c2, "NodeGroupsFailed", progress["failed"])
             c4 == Put(c3, "NodeGroupsRunningDesired", progress["no_action"])
             c5 == Put(c4, "NodeGroupsNotActive", progress["not_active"])
             c6 == Put(c5, "Message", Append(c0["Message"], message))
         IN [raised |-> FALSE, report |-> ReportOf(c6)]

\* The try block of AddonsUpgradeStep.run (lines 103-189): what it leaves
\* behind and whether it ends in ExecutionUtility.stop().
AddonsTry(item, apiOk, addons, log) ==
    LET c == item.cluster
        same == [log |-> log, report |-> reports[c], csv |-> csvReports[c]]
    IN IF ~apiOk
       THEN \* list_addons: ClientError -> ExecutionUtility.stop()
            same @@ [pending |-> ExecutionUtilityStop.pending]
       ELSE IF Len(addons) = 0
       THEN LET pop == PopulateAddonsReport(reports[c], 0, NewProgress,
                                            "Addons not present")
            IN IF pop.raised
               THEN same @@ [pending |-> ExecutionUtilityStop.pending]
               ELSE [log |-> log, report |-> pop.report,
                     csv |-> <<AddonContent(None, None, "No Addons present", None, None)>>,
                     pending |-> "none"]
       ELSE LET input == IF Len(item.addons_to_update) = 0
                         THEN DEFAULT_ADDONS_FOR_UPDATE
                         ELSE item.addons_to_update
                acc == UpdateAddons(addons, input, 1,
                           [progress |-> NewProgress, rows |-> <<>>, log |-> log])
                pop == PopulateAddonsReport(reports[c], Len(addons), acc.progress,
                                            "Addons updated; Check addonsupdate table")
            IN [log |-> acc.log, report |-> pop.report, csv |-> acc.rows,
                pending |-> IF pop.raised THEN ExecutionUtilityStop.pending ELSE "none"]

\* The try block of NodesUpgradeStep.run (lines 101-156)
NodesTry(item, apiOk, nodes, log) ==
    LET c == item.cluster
        same == [log |-> log, report |-> reports[c], csv |-> csvReports[c]]
    IN IF ~apiOk
       THEN same @@ [pending |-> ExecutionUtilityStop.pending]
       ELSE IF Len(nodes) = 0
       THEN LET pop == PopulateNodesReport(reports[c], 0, NewProgress,
                                           "No managed node groups found. ")
            IN IF pop.raised
               THEN same @@ [pending |-> ExecutionUtilityStop.pending]
               ELSE [log |-> log, report |-> pop.report,
                     csv |-> <<NodeGroupContent(None, "No NodeGroups present", None, None)>>,
                     pending |-> "none"]
       ELSE LET acc == UpdateNodeGroups(nodes, item.desired_eks_version, 1,
                           [progress |-> NewProgress, rows |-> <<>>, log |-> log])
                pop == PopulateNodesReport(reports[c], Len(nodes), acc.progress,
                                           "Node groups updated; Check nodegroupsupdate table")
            IN [log |-> acc.log, report |-> pop.report, csv |-> acc.rows,
                pending |-> IF pop.raised THEN ExecutionUtilityStop.pending ELSE "none"]

\* The try block of ControlPlaneUpdateStep.run (lines 39-118)
ControlPlaneTry(existing_report, eks_version, desired_version, resp, log) ==
    IF eks_version = desired_version
    THEN [log |-> log, pending |-> "none",
          report |-> ReportOf(Put(Put(existing_report, "ClusterUpdateStatus", "No Action"),
                                  "Message", <<"Cluster already running desired">>))]
    ELSE IF ~IsVersionUpgradable(eks_version, desired_version)
    THEN [log |-> log, pending |-> ExecutionUtilityStop.pending,
          report |-> ReportOf(Put(Put(existing_report, "ClusterUpdateStatus", "Not supported"),
                                  "Message", <<"Upgrading more than one version at a time is not supported.">>))]
    ELSE IF resp = 0
    THEN [log |-> Append(log, EvRc("script", "upgrade_version.sh", resp)), pending |-> "none",
          report |-> ReportOf(Put(Put(existing_report, "ClusterUpdateStatus", "Success"),
                                  "Message", <<"Cluster upgraded">>))]
    ELSE [log |-> Append(log, EvRc("script", "upgrade_version.sh", resp)),
          pending |-> ExecutionUtilityStop.pending,
          report |-> ReportOf(Put(Put(existing_report, "ClusterUpdateStatus", "Failure"),
                                  "Message", <<"Update script failed">>))]

\* ---- the work items a step is started with -----------------------------
\* An InputCluster, with the options the modelled steps read
InputCluster(cluster, desired_eks_version, addons_to_update) ==
    [cluster |-> cluster, desired_eks_version |-> desired_eks_version,
     addons_to_update |-> addons_to_update]

ItemsFor(s) ==
    { InputCluster(c, d, a) :
        c \in ClusterNames,
        d \in (IF s = CONTROL_PLANE_UPGRADE_STEP THEN DesiredVersions ELSE {"1.29"}),
        a \in (IF s = ADDONS_UPGRADE_STEP THEN {<<>>, <<"coredns">>} ELSE {<<>>}) }

\* The report an earlier step of the pipeline left for a cluster, if any
EarlierReports(s) ==
    IF s = PSP_STEP THEN {NoReport}
    ELSE {NoReport,
          ReportOf([ClusterUpdateStatus |-> "Success", Message |-> <<"Cluster upgraded">>])}

CallIdle == /\ args = <<>> /\ result = <<>> /\ phase = "idle"

\* The process after construction and get_relevant_clusters (basestep.py
\* lines 302-318): the loop has not started.
InitEngine ==
    /\ step \in Steps
    /\ clusters \in SeqsUpTo(ItemsFor(step), MaxClusters)
    /\ idx = 0
    /\ pc = "loop"
    /\ pending = "none"
    /\ exitCode = -1
    /\ events = <<>>
    /\ reports \in [ClusterNames -> EarlierReports(step)]
    /\ csvReports = [c \in ClusterNames |-> <<>>]
    /\ CallIdle

\* for input_cluster in clusters: (line 320) and the entry of the try block
NextCluster ==
    /\ pc = "loop"
    /\ idx < Len(clusters)
    /\ idx' = idx + 1
    /\ pc' = IF CheckClusterStatus(step) THEN "status" ELSE "run"
    /\ UNCHANGED <<step, clusters, pending, exitCode, events, reports, csvReports>>
    /\ UNCHANGED callVars

\* The loop is exhausted: "End {name}", the script returns, exit status 0
Finish ==
    /\ pc = "loop"
    /\ idx = Len(clusters)
    /\ pc' = "done"
    /\ exitCode' = 0
    /\ UNCHANGED <<step, clusters, idx, pending, events, reports, csvReports>>
    /\ UNCHANGED callVars

\* Mutant: the status check replaces the report instead of merging into it
ClusterStatus_Overwrite ==
    /\ pc = "status"
    /\ \E apiOk \in BOOLEAN, status \in ClusterStatuses :
         LET c == clusters[idx].cluster
             name == ReportName(step)
             report == JsonReportFile(c, name)
             started == Append(events, Ev("status", name))
             described == Append(started, Ev("describe", status))
         IN IF ~apiOk
            THEN /\ events' = Append(started, Ev("describe", ApiError))
                 /\ pending' = ExecutionUtilityStop.pending
                 /\ pc' = "finally"
                 /\ UNCHANGED reports
            ELSE /\ reports' = [reports EXCEPT ![c] =
                                    ReportOf(Put(EmptyContent, "ClusterStatus", status))]
                 /\ IF status # ACTIVE_STATUS
                    THEN /\ events' = UploadReports(described, report)
                         /\ pending' = ExecutionUtilityStop.pending
                         /\ pc' = "finally"
                    ELSE /\ events' = described
                         /\ pending' = pending
                         /\ pc' = "run"
    /\ UNCHANGED <<step, clusters, idx, exitCode, csvReports>>
    /\ UNCHANGED callVars

\* BaseStep.cluster_status(cluster, report_name)
ClusterStatus ==
    /\ pc = "status"
    /\ \E apiOk \in BOOLEAN, status \in ClusterStatuses :
         LET c == clusters[idx].cluster
             name == ReportName(step)
             \* report = self.base_report(...): the parameter now holds the path
             report == JsonReportFile(c, name)
             started == Append(events, Ev("status", name))
             described == Append(started, Ev("describe", status))
             old == IF reports[c].exists THEN reports[c].content ELSE EmptyContent
         IN IF ~apiOk
            THEN \* get_eks_cluster_details: ClientError -> ExecutionUtility.stop()
                 /\ events' = Append(started, Ev("describe", ApiError))
                 /\ pending' = ExecutionUtilityStop.pending
                 /\ pc' = "finally"
                 /\ UNCHANGED reports
            ELSE /\ reports' = [reports EXCEPT ![c] = ReportOf(Put(old, "ClusterStatus", status))]
                 /\ IF status # ACTIVE_STATUS
                    THEN /\ events' = UploadReports(described, report)
                         /\ pending' = ExecutionUtilityStop.pending
                         /\ pc' = "finally"
                    ELSE /\ events' = described
                         /\ pending' = pending
                         /\ pc' = "run"
    /\ UNCHANGED <<step, clusters, idx, exitCode, csvReports>>
    /\ UNCHANGED callVars

\* ControlPlaneUpdateStep.run(input_cluster)
RunControlPlane ==
    /\ pc = "run"
    /\ step = CONTROL_PLANE_UPGRADE_STEP
    /\ \E apiOk \in BOOLEAN, eks_version \in EksVersions, resp \in ExitCodes :
         LET item == clusters[idx]
             c == item.cluster
             started == Append(events, Ev("run", step))
         IN IF ~reports[c].exists
            THEN \* read_json_file raises before the try block
                 /\ events' = started /\ pending' = "exc" /\ UNCHANGED reports
            ELSE IF ~apiOk
            THEN \* get_eks_cluster_details: ClientError -> ExecutionUtility.stop()
                 /\ events' = started
                 /\ pending' = ExecutionUtilityStop.pending
                 /\ UNCHANGED reports
            ELSE LET out == ControlPlaneTry(reports[c].content, eks_version,
                                            item.desired_eks_version, resp,
                                            Append(started, Ev("details", eks_version)))
                 IN /\ events' = out.log
                    /\ pending' = out.pending
                    /\ reports' = [reports EXCEPT ![c] = out.report]
    /\ pc' = "finally"
    /\ UNCHANGED <<step, clusters, idx, exitCode, csvReports>>
    /\ UNCHANGED callVars

\* AddonsUpgradeStep.run(input_cluster)
RunAddons ==
    /\ pc = "run"
    /\ step = ADDONS_UPGRADE_STEP
    /\ \E mkdirOk \in BOOLEAN, apiOk \in BOOLEAN, addons \in AddonLists :
         LET item == clusters[idx]
             c == item.cluster
             started == Append(events, Ev("run", step))
         IN IF ~mkdirOk
            THEN \* csv_report_file raises before the try block
                 /\ events' = started /\ pending' = "exc"
                 /\ UNCHANGED <<reports, csvReports>>
            ELSE LET out == AddonsTry(item, apiOk, addons, started)
                 IN \* finally: upload_reports(cluster, ADDONS_UPGRADE_STEP)
                    /\ events' = UploadReports(out.log, ADDONS_UPGRADE_STEP)
                    /\ pending' = out.pending
                    /\ reports' = [reports EXCEPT ![c] = out.report]
                    /\ csvReports' = [csvReports EXCEPT ![c] = out.csv]
    /\ pc' = "finally"
    /\ UNCHANGED <<step, clusters, idx, exitCode>>
    /\ UNCHANGED callVars

\* NodesUpgradeStep.run(input_cluster)
RunNodes ==
    /\ pc = "run"
    /\ step = NODE_GROUPS_UPGRADE_STEP
    /\ \E mkdirOk \in BOOLEAN, apiOk \in BOOLEAN, nodes \in NodeGroupLists :
         LET item == clusters[idx]
             c == item.cluster
             started == Append(events, Ev("run", step))
         IN IF ~mkdirOk
            THEN /\ events' = started /\ pending' = "exc"
                 /\ UNCHANGED <<reports, csvReports>>
            ELSE LET out == NodesTry(item, apiOk, nodes, started)
                 IN \* finally: upload_reports(cluster, NODE_GROUPS_UPGRADE_STEP)
                    /\ events' = UploadReports(out.log, NODE_GROUPS_UPGRADE_STEP)
                    /\ pending' = out.pending
                    /\ reports' = [reports EXCEPT ![c] = out.report]
                    /\ csvReports' = [csvReports EXCEPT ![c] = out.csv]
    /\ pc' = "finally"
    /\ UNCHANGED <<step, clusters, idx, exitCode>>
    /\ UNCHANGED callVars

\* PSPStep.run(input_cluster)
RunPsp ==
    /\ pc = "run"
    /\ step = PSP_STEP
    /\ \E mkdirOk \in BOOLEAN, resp \in ExitCodes :
         LET c == clusters[idx].cluster
             started == Append(events, Ev("run", step))
             ran == Append(started, EvRc("script", "psp_check.sh", resp))
         IN IF ~mkdirOk
            THEN \* json_report_file raises: nothing catches it
                 /\ events' = started /\ pending' = "exc"
                 /\ UNCHANGED <<reports, csvReports>>
            ELSE IF resp = 0
            THEN \* the CSV is written and the script's JSON file removed
                 /\ events' = ran /\ pending' = pending
                 /\ csvReports' = [csvReports EXCEPT ![c] = <<[Data |-> "N/A"]>>]
                 /\ reports' = [reports EXCEPT ![c] = NoReport]
            ELSE /\ events' = ran
                 /\ pending' = ExecutionUtilityStop.pending
                 /\ UNCHANGED <<reports, csvReports>>
    /\ pc' = "finally"
    /\ UNCHANGED <<step, clusters, idx, exitCode>>
    /\ UNCHANGED callVars

\* Mutant: the upload follows run inside the try block instead of sitting in
\* a finally block, so an exception or SystemExit skips it
Finally_UploadOnlyOnSuccess ==
    /\ pc = "finally"
    /\ \E s3Ok \in BOOLEAN :
         IF pending # "none"
         THEN /\ pc' = "exited" /\ exitCode' = ExecutionUtilityStop.code
              /\ UNCHANGED <<events, pending>>
         ELSE LET p == IF s3Ok THEN pending ELSE ExecutionUtilityStop.pending
              IN /\ events' = UploadReports(events, ReportName(step))
                 /\ pending' = p
                 /\ IF p = "none"
                    THEN pc' = "loop" /\ UNCHANGED exitCode
                    ELSE pc' = "exited" /\ exitCode' = ExecutionUtilityStop.code
    /\ UNCHANGED <<step, clusters, idx, reports, csvReports>>
    /\ UNCHANGED callVars

\* Mutant: whatever run raised is swallowed after the upload and the loop
\* goes on to the next cluster
Finally_ContinueAfterFatal ==
    /\ pc = "finally"
    /\ events' = UploadReports(events, ReportName(step))
    /\ pending' = "none"
    /\ pc' = "loop"
    /\ UNCHANGED <<step, clusters, idx, exitCode, reports, csvReports>>
    /\ UNCHANGED callVars

\* The finally block of BaseStep.start (lines 330-332), and what follows it:
\* the next iteration, or the exception / SystemExit leaving the process.
\* upload_reports itself stops the process when the S3 upload fails.
Finally ==
    /\ pc = "finally"
    /\ \E s3Ok \in BOOLEAN :
         LET p == IF s3Ok THEN pending ELSE ExecutionUtilityStop.pending
         IN /\ events' = UploadReports(events, ReportName(step))
            /\ pending' = p
            /\ IF p = "none"
               THEN pc' = "loop" /\ UNCHANGED exitCode
               ELSE pc' = "exited" /\ exitCode' = ExecutionUtilityStop.code
    /\ UNCHANGED <<step, clusters, idx, reports, csvReports>>
    /\ UNCHANGED callVars

NextEngine ==
    \/ NextCluster
    \/ ClusterStatus
    \/ RunControlPlane
    \/ RunAddons
    \/ RunNodes
    \/ RunPsp
    \/ Finally
    \/ Finish

SpecEngine == InitEngine /\ [][NextEngine]_vars

\* ------------------------------------------------------------------------
\* Properties of the step execution engine
\* ------------------------------------------------------------------------
\* The status check or the run of the i-th cluster has begun
Begun(i) ==
    \E k \in DOMAIN events :
        events[k].idx = i /\ events[k].kind \in {"status", "run"}

\* The loop has left the i-th cluster, or the process has ended
MovedPast(i) == idx > i \/ (idx = i /\ pc \in {"loop", "done", "exited"})

\* Entry k of the log is upload_reports(i-th cluster, the step's report name)
UploadedAt(k, i) ==
    /\ events[k].kind = "upload"
    /\ events[k].idx = i
    /\ events[k].cluster = clusters[i].cluster
    /\ events[k].arg = ReportName(step)

\* C1: for every cluster whose status check or run has begun, upload_reports
\* for that cluster and the step's report name is executed before the loop
\* moves on to the next cluster or the process ends, however run ended.
C1_UploadGuaranteed ==
    \A i \in 1..Len(clusters) :
        (Begun(i) /\ MovedPast(i)) =>
            \E k \in DOMAIN events :
                /\ UploadedAt(k, i)
                /\ \E b \in 1..(k - 1) :
                       events[b].idx = i /\ events[b].kind \in {"status", "run"}
                /\ \A j \in DOMAIN events : events[j].idx > i => k < j

\* C1 witness: run raised an exception, the process has ended, and the report
\* of that cluster was uploaded on the way out.
C1_Witness ==
    /\ pc = "exited"
    /\ pending = "exc"
    /\ \E k \in DOMAIN events : events[k].kind = "run" /\ events[k].idx = idx
    /\ UploadedAt(Len(events), idx)

C2_Inv ==
    /\ \A j, k \in DOMAIN events : j < k => events[j].idx <= events[k].idx
    /\ \A k \in DOMAIN events :
           /\ events[k].idx \in 1..idx
           /\ events[k].cluster = clusters[events[k].idx].cluster
    /\ \A i \in 1..(idx - 1) : Begun(i)
    /\ pending # "none" => pc \in {"finally", "exited"}
    /\ pc = "exited" =>
           /\ exitCode = 1
           /\ pending # "none"
           /\ Len(events) > 0
           /\ UploadedAt(Len(events), idx)

C2_Step ==
    /\ pending # "none" =>
           /\ idx' = idx
           /\ pc' = "exited"
           /\ exitCode' = 1
           /\ events' = Append(events, [kind |-> "upload", idx |-> idx,
                                        cluster |-> clusters[idx].cluster,
                                        arg |-> ReportName(step), rc |-> 0])
    /\ pc = "exited" => UNCHANGED vars

\* C2: clusters are handled one at a time in list order; once the status
\* check or run of cluster i is fatal, the only thing that still happens is
\* the upload of cluster i's report followed by the process ending with exit
\* status 1: no status check, run or upload for any later cluster.
C2_FatalStopsBatch == [](C2_Inv) /\ [][C2_Step]_vars

\* C2 witness: the run of a cluster was fatal, the process has ended, and a
\* later cluster of the list was never touched.
C2_Witness ==
    /\ pc = "exited"
    /\ idx < Len(clusters)
    /\ \E k \in DOMAIN events : events[k].kind = "run" /\ events[k].idx = idx
    /\ \A k \in DOMAIN events : events[k].idx <= idx

\* Entry k of the log is a describe that found the cluster not ACTIVE
NotActiveAt(k) ==
    events[k].kind = "describe" /\ events[k].arg \notin {ACTIVE_STATUS, ApiError}

C3_Inv ==
    \A k \in DOMAIN events :
        NotActiveAt(k) =>
            LET i == events[k].idx
                c == events[k].cluster
            IN /\ i = idx
               /\ pc \in {"finally", "exited"}
               /\ pending = "exit"
               /\ reports[c].exists
               /\ "ClusterStatus" \in DOMAIN reports[c].content
               /\ reports[c].content["ClusterStatus"] = events[k].arg
               /\ \A j \in DOMAIN events :
                      /\ events[j].idx <= i
                      /\ ~(events[j].kind = "run" /\ events[j].idx >= i)
               /\ pc = "exited" =>
                      /\ exitCode = 1
                      /\ \E u \in DOMAIN events : u > k /\ UploadedAt(u, i)

C3_Step ==
    (pc = "status" /\ reports' # reports) =>
        LET c == clusters[idx].cluster
        IN /\ reports'[c].exists
           /\ \A f \in (DOMAIN reports[c].content) \ {"ClusterStatus"} :
                  /\ f \in DOMAIN reports'[c].content
                  /\ reports'[c].content[f] = reports[c].content[f]

\* C3: with status checking enabled, a cluster found not ACTIVE has its status
\* written into its report under the step's report name, the fields already
\* in the report kept; that report is uploaded; the run is aborted with run
\* never invoked for that cluster or any later one.
C3_NotActiveAborts == [](C3_Inv) /\ [][C3_Step]_vars

\* C3 witness: a cluster was found not ACTIVE, its report holds the status
\* next to the Message an earlier step wrote, the report was uploaded, the
\* process has ended and a later cluster was left untouched.
C3_Witness ==
    /\ pc = "exited"
    /\ idx < Len(clusters)
    /\ \E k \in DOMAIN events :
           /\ NotActiveAt(k)
           /\ "Message" \in DOMAIN reports[events[k].cluster].content
           /\ \E u \in DOMAIN events : u > k /\ UploadedAt(u, idx)

\* Entry k of the log is an action script that exited non-zero
ScriptFailedAt(k) == events[k].kind = "script" /\ events[k].rc # 0

\* The process is on its way out: a SystemExit is propagating or has ended it
Aborting == pc \in {"finally", "exited"} /\ pending = "exit"

PerItemSteps == {ADDONS_UPGRADE_STEP, NODE_GROUPS_UPGRADE_STEP}

FailedField == IF step = ADDONS_UPGRADE_STEP THEN "AddonsFailed" ELSE "NodeGroupsFailed"

C4_Inv ==
    \A k \in DOMAIN events :
        ScriptFailedAt(k) =>
            LET i == events[k].idx
                c == events[k].cluster
            IN IF step \in PerItemSteps
               THEN (i = idx /\ pc = "finally") =>
                       /\ \E r \in DOMAIN csvReports[c] :
                              /\ csvReports[c][r].Name = events[k].arg
                              /\ csvReports[c][r].UpdateStatus = "Failure"
                       /\ pending = "none" =>
                              reports[c].content[FailedField] =
                                  Cardinality({j \in DOMAIN events :
                                      ScriptFailedAt(j) /\ events[j].idx = i})
               ELSE /\ i = idx
                    /\ Aborting
                    /\ \A j \in DOMAIN events : events[j].idx <= i
                    /\ step = CONTROL_PLANE_UPGRADE_STEP =>
                           reports[c].content["ClusterUpdateStatus"] = "Failure"
                    /\ pc = "exited" =>
                           \E u \in DOMAIN events : u > k /\ UploadedAt(u, i)

C4_Step ==
    (pc = "run" /\ step \in PerItemSteps /\ pending' # "none") => reports' = reports

EngineIdle ==
    /\ step = PSP_STEP
    /\ clusters = <<>>
    /\ idx = 0
    /\ pc = "idle"
    /\ pending = "none"
    /\ exitCode = -1
    /\ events = <<>>
    /\ reports = [c \in ClusterNames |-> NoReport]
    /\ csvReports = [c \in ClusterNames |-> <<>>]

\* A key the dict does not have (None is a key holding JSON null)
Missing == "<missing>"

\* dict.get(key), dict.get(key, None)
Get(v) == IF v = Missing THEN None ELSE v

\* dict.get(key, default)
GetOr(v, default) == IF v = Missing THEN default ELSE v

\* str(v) inside an f-string
Str(v) == IF v = None THEN "None" ELSE v

\* "key" in "NAME": substring test on strings
In(key, name) ==
    \E i \in 1..Len(name) :
        /\ i + Len(key) - 1 <= Len(name)
        /\ SubSeq(name, i, i + Len(key) - 1) = key

MAX_ROLE_LENGTH == 64

MIN_ROLE_LENGTH == 1

\* datetime.now().date(), evaluated once when the module is imported
current_date == "2024-06-01"

SUMMARY == "SUMMARY"

BACKUP == "BACKUP"

RESTORE == "RESTORE"

UPGRADE == "UPGRADE"

SUMMARY_KEY == "Summary"

BACKUP_KEY == "Backup"

RESTORE_KEY == "Restore"

UPGRADE_KEY == "Upgrade"

\* The names the three lambda functions pass to AutomationFunction
LambdaNames == {"summary", "backup", "upgrade"}

\* str.upper() on the strings the model uses
Upper(name) ==
    CASE name = "summary" -> "SUMMARY"
      [] name = "backup" -> "BACKUP"
      [] name = "upgrade" -> "UPGRADE"
      [] name = SUMMARY_KEY -> "SUMMARY"
      [] name = BACKUP_KEY -> "BACKUP"
      [] name = RESTORE_KEY -> "RESTORE"
      [] name = UPGRADE_KEY -> "UPGRADE"

\* default_options each lambda_handler builds (RESOURCE_PREFIX and
\* LATEST_EKS_VERSION at their deployed values)
DefaultOptions(lambda_name) ==
    [VeleroNamespace |-> "velero",
     ServiceAccount |-> "eks-management-velero-service-account",
     ServiceAccountRolePrefix |-> "eks-management-sa",
     VeleroPluginVersion |-> "v1.10.1",
     DesiredEKSVersion |-> IF lambda_name = "upgrade" THEN "1.30" ELSE Missing]

\* {} passed as default_options
EmptyDict ==
    [VeleroNamespace |-> Missing, ServiceAccount |-> Missing,
     ServiceAccountRolePrefix |-> Missing, VeleroPluginVersion |-> Missing,
     DesiredEKSVersion |-> Missing]

\* A dict- or list-valued key: holding a value, absent, or JSON null
Given(value) == [given |-> "value", value |-> value]

Absent(empty) == [given |-> "missing", value |-> empty]

Null(empty) == [given |-> "null", value |-> empty]

EmptyBackupOptions ==
    [BackupName |-> Missing, VeleroNamespace |-> Missing,
     VeleroPluginVersion |-> Missing, ServiceAccount |-> Missing,
     ServiceAccountRoleName |-> Missing, VeleroArguments |-> Missing]

EmptyRestoreOptions == [BackupName |-> Missing, VeleroArguments |-> Missing]

EmptyUpgradeOptions ==
    [DesiredEKSVersion |-> Missing, ManagedNodeGroups |-> Absent(<<>>)]

\* cluster.Cluster as it arrives in the event
Cluster(account_id, region, cluster_name, action, options) ==
    [AccountId |-> account_id, Region |-> region, ClusterName |-> cluster_name,
     Action |-> action, Options |-> options]

\* What get_cluster_mappings and the valid_* methods hand back
Raised(message) == [raised |-> TRUE, valid |-> FALSE, message |-> message]

Invalid(message) == [raised |-> FALSE, valid |-> FALSE, message |-> message]

Valid == [raised |-> FALSE, valid |-> TRUE, message |-> "Valid"]

\* EventSource.valid_required_fields
ValidRequiredFields(cluster) ==
    IF \/ Get(cluster.AccountId) = None
       \/ Get(cluster.Region) = None
       \/ Get(cluster.ClusterName) = None
    THEN Invalid("One of these fields are missing - AccountId, Region, ClusterName")
    ELSE Valid

\* SummaryEventSource.valid_cluster
SummaryValidCluster(cluster) == Valid

\* Mutant: the length of the role name is not looked at
BackupValidCluster_RoleUnchecked(cluster) ==
    LET action == Get(cluster.Action)
    IN IF action # None /\ action # BACKUP
       THEN Invalid("Only BACKUP value is allowed for action field")
       ELSE Valid

\* BackupEventSource.valid_cluster
BackupValidCluster(cluster) ==
    LET action == Get(cluster.Action)
        role_name == Get(cluster.Options.value.ServiceAccountRoleName)
    IN IF action # None /\ action # BACKUP
       THEN Invalid("Only BACKUP value is allowed for action field")
       ELSE IF \/ role_name = None
               \/ Len(role_name) > MAX_ROLE_LENGTH
               \/ Len(role_name) < MIN_ROLE_LENGTH
       THEN Invalid("Provided/ defaulted role name")
       ELSE Valid

\* BackupEventSource.set_defaults
BackupSetDefaults(cluster, default_options) ==
    IF cluster.Options.given = "null"
    THEN [raised |-> TRUE, cluster |-> cluster]
    ELSE LET cluster_name == Get(cluster.ClusterName)
             region == Get(cluster.Region)
             role_prefix == Get(default_options.ServiceAccountRolePrefix)
             options == cluster.Options.value
             backup_name ==
                 IF Get(options.BackupName) = None
                 THEN current_date \o "-" \o Str(region) \o "-" \o Str(cluster_name)
                 ELSE options.BackupName
             velero_namespace ==
                 IF Get(options.VeleroNamespace) = None
                 THEN Get(default_options.VeleroNamespace)
                 ELSE options.VeleroNamespace
             velero_plugin_version ==
                 IF Get(options.VeleroPluginVersion) = None
                 THEN Get(default_options.VeleroPluginVersion)
                 ELSE options.VeleroPluginVersion
             service_account ==
                 IF Get(options.ServiceAccount) = None
                 THEN Get(default_options.ServiceAccount)
                 ELSE options.ServiceAccount
             service_account_role ==
                 IF Get(options.ServiceAccountRoleName) = None
                 THEN Str(role_prefix) \o "-" \o Str(cluster_name) \o "-Role"
                 ELSE options.ServiceAccountRoleName
         IN [raised |-> FALSE,
             cluster |-> [cluster EXCEPT !.Options = Given(
                 [BackupName |-> backup_name,
                  VeleroNamespace |-> velero_namespace,
                  ServiceAccount |-> service_account,
                  ServiceAccountRoleName |-> service_account_role,
                  VeleroArguments |-> Get(options.VeleroArguments),
                  VeleroPluginVersion |-> velero_plugin_version])]]

\* RestoreEventSource.valid_cluster
RestoreValidCluster(cluster) ==
    LET action == Get(cluster.Action)
    IN IF action # None /\ action # RESTORE
       THEN Invalid("Only RESTORE value is allowed for action field")
       ELSE IF cluster.Options.given = "null"
       THEN Raised("AttributeError")
       ELSE IF Get(cluster.Options.value.BackupName) = None
       THEN Invalid("BackupName is required for RESTORE action")
       ELSE Valid

\* RestoreEventSource.set_defaults
RestoreSetDefaults(cluster, default_options) ==
    [raised |-> FALSE,
     cluster |-> IF cluster.Options.given = "missing"
                 THEN [cluster EXCEPT !.Options = Given(EmptyRestoreOptions)]
                 ELSE cluster]

\* UpgradeEventSource.valid_cluster
UpgradeValidCluster(cluster) ==
    LET action == Get(cluster.Action)
        managed_node_groups == cluster.Options.value.ManagedNodeGroups
    IN IF action # None /\ action # UPGRADE
       THEN Invalid("Only Upgrade value is allowed for action field")
       ELSE IF cluster.Options.given = "null" \/ managed_node_groups.given = "null"
       THEN Raised("TypeError")
       ELSE IF \E n \in DOMAIN managed_node_groups.value :
                   Get(managed_node_groups.value[n].Name) = None
       THEN Invalid("One of these fields are missing in ManagedNodeGroups - Name")
       ELSE Valid

\* UpgradeEventSource.set_defaults
UpgradeSetDefaults(cluster, default_options) ==
    IF cluster.Options.given = "null"
    THEN [raised |-> TRUE, cluster |-> cluster]
    ELSE LET options == cluster.Options.value
         IN [raised |-> FALSE,
             cluster |-> [cluster EXCEPT !.Options = Given(
                 [options EXCEPT !.DesiredEKSVersion =
                     GetOr(options.DesiredEKSVersion,
                           Get(default_options.DesiredEKSVersion))])]]

\* EventSource.set_defaults, as each subclass overrides it
SetDefaults(action, cluster, default_options) ==
    CASE action = BACKUP -> BackupSetDefaults(cluster, default_options)
      [] action = RESTORE -> RestoreSetDefaults(cluster, default_options)
      [] action = UPGRADE -> UpgradeSetDefaults(cluster, default_options)
      [] action = SUMMARY -> [raised |-> FALSE, cluster |-> cluster]

\* EventSource.valid_cluster, as each subclass overrides it
ValidCluster(action, cluster) ==
    CASE action = BACKUP -> BackupValidCluster(cluster)
      [] action = RESTORE -> RestoreValidCluster(cluster)
      [] action = UPGRADE -> UpgradeValidCluster(cluster)
      [] action = SUMMARY -> SummaryValidCluster(cluster)

\* EventSource.get_cluster_mappings
GetClusterMappings(action, input_cluster, default_options) ==
    LET defaulted == SetDefaults(action, input_cluster, default_options)
        required == ValidRequiredFields(defaulted.cluster)
        checked == ValidCluster(action, defaulted.cluster)
    IN IF defaulted.raised
       THEN [raised |-> TRUE, message |-> "AttributeError", cluster |-> input_cluster]
       ELSE IF ~required.valid
       THEN [raised |-> TRUE, message |-> required.message, cluster |-> input_cluster]
       ELSE IF ~checked.valid
       THEN [raised |-> TRUE, message |-> checked.message, cluster |-> input_cluster]
       ELSE [raised |-> FALSE, message |-> "", cluster |-> defaulted.cluster]

\* What get_clusters and get_input_clusters hand back: a list, or an exception
Returned(mapped_clusters) ==
    [raised |-> FALSE, message |-> "", clusters |-> mapped_clusters]

Propagated(message) == [raised |-> TRUE, message |-> message, clusters |-> <<>>]

\* The loop of EventSource.get_clusters from item i on
RECURSIVE MapClusters(_, _, _, _, _)
MapClusters(action, input_clusters, default_options, i, mapped_clusters) ==
    IF i > Len(input_clusters)
    THEN Returned(mapped_clusters)
    ELSE LET mapping == GetClusterMappings(action, input_clusters[i], default_options)
             cluster == IF Get(mapping.cluster.Action) = None
                        THEN [mapping.cluster EXCEPT !.Action = action]
                        ELSE mapping.cluster
         IN IF mapping.raised
            THEN Propagated(mapping.message)
            ELSE MapClusters(action, input_clusters, default_options, i + 1,
                             Append(mapped_clusters, cluster))

\* Mutant: an item that fails validation is left out and the loop goes on
RECURSIVE SkipInvalid(_, _, _, _, _)
SkipInvalid(action, input_clusters, default_options, i, mapped_clusters) ==
    IF i > Len(input_clusters)
    THEN Returned(mapped_clusters)
    ELSE LET mapping == GetClusterMappings(action, input_clusters[i], default_options)
             cluster == IF Get(mapping.cluster.Action) = None
                        THEN [mapping.cluster EXCEPT !.Action = action]
                        ELSE mapping.cluster
         IN SkipInvalid(action, input_clusters, default_options, i + 1,
                        IF mapping.raised THEN mapped_clusters
                        ELSE Append(mapped_clusters, cluster))

GetClusters_SkipInvalid(action, input_clusters, default_options) ==
    SkipInvalid(action, input_clusters, default_options, 1, <<>>)

\* EventSource.get_clusters
GetClusters(action, input_clusters, default_options) ==
    MapClusters(action, input_clusters, default_options, 1, <<>>)

\* factory.get_input_clusters
GetInputClusters(lambda_name, event, default_options) ==
    LET summary_clusters == event.Clusters.Summary
        upgrade_clusters == event.Clusters.Upgrade
        backup_clusters == event.Clusters.Backup
        restore_clusters == event.Clusters.Restore
        fromBucket(action, input_clusters, options) ==
            IF Len(input_clusters) > 0
            THEN GetClusters(action, input_clusters, options)
            ELSE Returned(<<>>)
    IN IF In(Upper(BACKUP_KEY), Upper(lambda_name))
       THEN LET backups == fromBucket(BACKUP, backup_clusters, default_options)
                restores == fromBucket(RESTORE, restore_clusters, default_options)
            IN IF backups.raised THEN backups
               ELSE IF restores.raised THEN restores
               ELSE Returned(backups.clusters \o restores.clusters)
       ELSE IF In(Upper(UPGRADE_KEY), Upper(lambda_name))
       THEN fromBucket(UPGRADE, upgrade_clusters, default_options)
       ELSE IF In(Upper(SUMMARY_KEY), Upper(lambda_name))
       THEN fromBucket(SUMMARY, summary_clusters, EmptyDict)
       ELSE Returned(<<>>)

\* Requests: the items each bucket of the event may hold
BackupOptions(backup_name, role_name) ==
    Given([EmptyBackupOptions EXCEPT !.BackupName = backup_name,
                                     !.ServiceAccountRoleName = role_name])

RestoreOptions(backup_name) ==
    Given([EmptyRestoreOptions EXCEPT !.BackupName = backup_name])

UpgradeOptions(desired_eks_version, managed_node_groups) ==
    Given([DesiredEKSVersion |-> desired_eks_version,
           ManagedNodeGroups |-> managed_node_groups])

ManagedNodeGroup(name) == [Name |-> name, LaunchTemplateVersion |-> Missing]

LongClusterName == "a-cluster-name-of-fifty-characters-abcdefghijklmno"

BackupItems ==
    {Cluster("111", "us-east-1", "a", Missing, Absent(EmptyBackupOptions)),
     Cluster("111", "us-east-1", "b", BACKUP, BackupOptions("nightly", "velero-role")),
     Cluster("111", "us-east-1", "a", RESTORE, Absent(EmptyBackupOptions)),
     Cluster("111", "us-east-1", "a", Missing, BackupOptions(Missing, "")),
     Cluster("111", "us-east-1", LongClusterName, Missing, Absent(EmptyBackupOptions)),
     Cluster("111", Missing, "a", Missing, Absent(EmptyBackupOptions))}

RestoreItems ==
    {Cluster("111", "us-east-1", "a", Missing, RestoreOptions("nightly")),
     Cluster("222", "us-west-2", "b", RESTORE, RestoreOptions("weekly")),
     Cluster("111", "us-east-1", "a", Missing, Absent(EmptyRestoreOptions)),
     Cluster("111", "us-east-1", "a", BACKUP, RestoreOptions("nightly")),
     Cluster(Missing, "us-east-1", "a", Missing, RestoreOptions("nightly"))}

UpgradeItems ==
    {Cluster("111", "us-east-1", "a", Missing, Absent(EmptyUpgradeOptions)),
     Cluster("111", "us-east-1", "b", UPGRADE,
             UpgradeOptions("1.29", Given(<<ManagedNodeGroup("ng1"),
                                            ManagedNodeGroup("ng2")>>))),
     Cluster("111", "us-east-1", "a", Missing,
             UpgradeOptions(None, Given(<<ManagedNodeGroup("ng1"),
                                          ManagedNodeGroup(Missing)>>))),
     Cluster("111", "us-east-1", "a", RESTORE, Absent(EmptyUpgradeOptions)),
     Cluster("111", "us-east-1", Missing, Missing, Absent(EmptyUpgradeOptions)),
     Cluster("222", "us-west-2", "a", Missing, UpgradeOptions(None, Null(<<>>))),
     Cluster("222", "us-west-2", "b", Missing, UpgradeOptions(None, Absent(<<>>)))}

SummaryItems ==
    {Cluster("111", "us-east-1", "a", Missing, Absent(EmptyDict)),
     Cluster("222", "us-west-2", "b", UPGRADE, Absent(EmptyDict)),
     Cluster(Missing, "us-east-1", "a", Missing, Absent(EmptyDict))}

\* The event of a lambda invocation
Event(summary, upgrade, backup, restore, targets) ==
    [Clusters |-> [Summary |-> summary, Upgrade |-> upgrade,
                   Backup |-> backup, Restore |-> restore],
     Targets |-> targets]

\* The buckets an event for each pipeline may carry; a bucket of another
\* pipeline may be there too
ClusterEvents(lambda_name) ==
    CASE lambda_name = "backup" ->
           {Event(<<>>, <<>>, b, r, <<>>) :
               b \in SeqsUpTo(BackupItems, MaxClusters),
               r \in SeqsUpTo(RestoreItems, MaxClusters)}
      [] lambda_name = "upgrade" ->
           {Event(<<>>, u, b, <<>>, <<>>) :
               u \in SeqsUpTo(UpgradeItems, MaxClusters),
               b \in SeqsUpTo({Cluster("111", Missing, "a", Missing,
                                       Absent(EmptyBackupOptions))}, 1)}
      [] lambda_name = "summary" ->
           {Event(s, <<>>, <<>>, <<>>, <<>>) :
               s \in SeqsUpTo(SummaryItems, MaxClusters)}

InitNormalizer ==
    /\ EngineIdle
    /\ \E lambda_name \in LambdaNames :
           args \in {[lambda_name |-> lambda_name, event |-> e] :
                        e \in ClusterEvents(lambda_name)}
    /\ result = <<>>
    /\ phase = "idle"

\* get_input_clusters(lambda_name, event, default_options)
CallGetInputClusters ==
    /\ phase = "idle"
    /\ result' = GetInputClusters(args.lambda_name, args.event,
                                  DefaultOptions(args.lambda_name))
    /\ phase' = "returned"
    /\ UNCHANGED args
    /\ UNCHANGED engineVars

NextNormalizer == CallGetInputClusters

SpecNormalizer == InitNormalizer /\ [][NextNormalizer]_vars

\* ------------------------------------------------------------------------
\* Properties of the Request Normalizer
\* ------------------------------------------------------------------------
\* The buckets the pipeline of a lambda normalizes, in the order it does
NormalizedBuckets(lambda_name) ==
    CASE lambda_name = "backup" -> <<BACKUP_KEY, RESTORE_KEY>>
      [] lambda_name = "upgrade" -> <<UPGRADE_KEY>>
      [] lambda_name = "summary" -> <<SUMMARY_KEY>>

\* The items the call normalizes, each tagged with the Action of its bucket
RECURSIVE Tagged(_, _)
Tagged(buckets, event) ==
    IF buckets = <<>> THEN <<>>
    ELSE LET items == event.Clusters[Head(buckets)]
         IN [i \in DOMAIN items |->
                [action |-> Upper(Head(buckets)), item |-> items[i]]]
            \o Tagged(Tail(buckets), event)

NormalizedItems == Tagged(NormalizedBuckets(args.lambda_name), args.event)

LacksRequired(item) ==
    \/ Get(item.AccountId) = None
    \/ Get(item.Region) = None
    \/ Get(item.ClusterName) = None

\* C5: if any item of a bucket the pipeline normalizes lacks AccountId, Region
\* or ClusterName, get_input_clusters raises and returns no list, neither the
\* valid items before the bad one nor the items of an earlier bucket.
C5_MissingFieldRejectsAll ==
    (phase = "returned" /\ \E i \in DOMAIN NormalizedItems :
                               LacksRequired(NormalizedItems[i].item))
        => (result.raised /\ result.clusters = <<>>)

\* C5 witness: the backup pipeline with valid Backup items and a Restore
\* bucket whose first item is valid and whose second lacks a required field;
\* the call raised.
C5_Witness ==
    /\ phase = "returned"
    /\ args.lambda_name = "backup"
    /\ LET backup == args.event.Clusters.Backup
           restore == args.event.Clusters.Restore
           ok(action, item) ==
               ~GetClusterMappings(action, item, DefaultOptions("backup")).raised
       IN /\ Len(backup) > 0
          /\ \A i \in DOMAIN backup : ok(BACKUP, backup[i])
          /\ Len(restore) = 2
          /\ ok(RESTORE, restore[1])
          /\ LacksRequired(restore[2])
    /\ result.raised

\* The invariant each Action places on a WorkItem
ActionInvariant(cluster) ==
    CASE cluster.Action = BACKUP ->
           /\ cluster.Options.given = "value"
           /\ cluster.Options.value.ServiceAccountRoleName \notin {None, Missing}
           /\ Len(cluster.Options.value.ServiceAccountRoleName) \in 1..64
      [] cluster.Action = RESTORE ->
           /\ cluster.Options.given = "value"
           /\ cluster.Options.value.BackupName \notin {None, Missing}
      [] cluster.Action = UPGRADE ->
           /\ cluster.Options.given = "value"
           /\ LET groups == cluster.Options.value.ManagedNodeGroups
              IN groups.given = "value" =>
                     \A n \in DOMAIN groups.value :
                         groups.value[n].Name \notin {None, Missing}
      [] OTHER -> FALSE

\* C6: every WorkItem returned from a Backup, Restore or Upgrade bucket
\* carries the Action of its bucket (an explicit different Action makes the
\* call raise, a missing one is filled in) and satisfies that Action's
\* invariant: role name of length 1 to 64, non-null BackupName, a Name on
\* every ManagedNodeGroups entry.
C6_ActionAndInvariant ==
    (phase = "returned" /\ args.lambda_name # "summary") =>
        /\ (\E i \in DOMAIN NormalizedItems :
               Get(NormalizedItems[i].item.Action)
                   \notin {None, NormalizedItems[i].action}) => result.raised
        /\ ~result.raised =>
               /\ Len(result.clusters) = Len(NormalizedItems)
               /\ \A i \in DOMAIN result.clusters :
                      /\ result.clusters[i].Action = NormalizedItems[i].action
                      /\ result.clusters[i].ClusterName =
                             NormalizedItems[i].item.ClusterName
                      /\ ActionInvariant(result.clusters[i])

\* C6 witness: the backup pipeline returned items of both buckets, one of
\* which arrived without an Action and one without a role name.
C6_Witness ==
    /\ phase = "returned"
    /\ args.lambda_name = "backup"
    /\ ~result.raised
    /\ Len(args.event.Clusters.Backup) > 0
    /\ Len(args.event.Clusters.Restore) > 0
    /\ \E i \in DOMAIN NormalizedItems :
           /\ NormalizedItems[i].item.Action = Missing
           /\ NormalizedItems[i].item.Options.given = "missing"
           /\ result.clusters[i].Action = BACKUP

\* ------------------------------------------------------------------------
\* Cluster Filter / Matcher (scripts/lib/wfutils.py, automationstep.py,
\* inputcluster.py)
\* ------------------------------------------------------------------------
MaxInputs == 3

\* An input cluster dict as SSM Automation passes it to the host
InputDict(account_id, region, cluster_name, desired_eks_version) ==
    [AccountId |-> account_id, Region |-> region, ClusterName |-> cluster_name,
     Action |-> Missing, DesiredEKSVersion |-> desired_eks_version]

\* InputCluster.__init__
InputClusterOf(input_cluster) ==
    [account |-> Get(input_cluster.AccountId),
     region |-> Get(input_cluster.Region),
     cluster |-> Get(input_cluster.ClusterName),
     action |-> Get(input_cluster.Action),
     desired_eks_version |-> Get(input_cluster.DesiredEKSVersion)]

\* ClusterUtility.from_strings
FromStrings(cluster_names) ==
    [i \in DOMAIN cluster_names |->
        InputClusterOf(InputDict(Missing, Missing, cluster_names[i], Missing))]

\* ClusterUtility.from_dicts
FromDicts(cluster_dicts) ==
    [i \in DOMAIN cluster_dicts |-> InputClusterOf(cluster_dicts[i])]

\* Mutant: only the name of the cluster is compared
FilterClusters_NameOnly(valid_account_clusters, input_clusters, account_id, region) ==
    LET keep(i) == Get(i.ClusterName) \in SeqToSet(valid_account_clusters)
    IN SelectSeq(input_clusters, keep)

\* ClusterUtility.filter_clusters
FilterClusters(valid_account_clusters, input_clusters, account_id, region) ==
    LET keep(i) ==
            /\ Get(i.ClusterName) \in SeqToSet(valid_account_clusters)
            /\ account_id = Get(i.AccountId)
            /\ region = Get(i.Region)
    IN SelectSeq(input_clusters, keep)

\* ClusterUtility.get_relevant_clusters
ClusterUtilityGetRelevantClusters(filter_input_clusters, valid_account_clusters, input_clusters, account_id, region) ==
    IF filter_input_clusters
    THEN FromDicts(FilterClusters(valid_account_clusters, input_clusters,
                                  account_id, region))
    ELSE FromStrings(valid_account_clusters)

\* AutomationStep.get_eks_clusters: the list in config/clusters.json, or
\* ExecutionUtility.stop() when it is empty
GetEksClusters(cluster_file) ==
    IF Len(cluster_file) = 0
    THEN [pending |-> ExecutionUtilityStop.pending, clusters |-> <<>>]
    ELSE [pending |-> "none", clusters |-> cluster_file]

\* Mutant: filtering stays on when no input is given to a step that does
\* not require any
GetRelevantClusters_FilterKept(step_, cluster_file, filter_input_clusters, input_clusters_required) ==
    LET eks == GetEksClusters(cluster_file)
    IN IF eks.pending # "none"
       THEN [pending |-> eks.pending, clusters |-> <<>>]
       ELSE [pending |-> "none",
             clusters |-> ClusterUtilityGetRelevantClusters(
                 filter_input_clusters, eks.clusters, step_.input_clusters,
                 step_.account_id, step_.region)]

\* AutomationStep.get_relevant_clusters; step_ holds the fields of self
GetRelevantClusters(step_, cluster_file, filter_input_clusters, input_clusters_required) ==
    LET eks == GetEksClusters(cluster_file)
        filter == IF ~input_clusters_required /\ Len(step_.input_clusters) = 0
                  THEN FALSE
                  ELSE filter_input_clusters
    IN IF eks.pending # "none"
       THEN [pending |-> eks.pending, clusters |-> <<>>]
       ELSE [pending |-> "none",
             clusters |-> ClusterUtilityGetRelevantClusters(
                 filter, eks.clusters, step_.input_clusters,
                 step_.account_id, step_.region)]

\* The input a host may be handed, and what the host sees
InputDicts ==
    {InputDict("111", "us-east-1", "a", "1.29"),
     InputDict("111", "us-east-1", "b", Missing),
     InputDict("111", "us-east-1", "c", Missing),
     InputDict("222", "us-east-1", "b", Missing),
     InputDict("111", "us-west-2", "b", Missing),
     InputDict("111", "us-east-1", Missing, Missing),
     InputDict(Missing, "us-east-1", "a", Missing)}

ClusterFiles == {<<>>, <<"a">>, <<"a", "b">>, <<"b", "a">>}

Hosts == {[account_id |-> "111", region |-> "us-east-1"],
          [account_id |-> "222", region |-> "us-east-1"]}

InitFilter ==
    /\ EngineIdle
    /\ args \in {[step |-> [input_clusters |-> i, account_id |-> h.account_id,
                            region |-> h.region],
                  cluster_file |-> f,
                  filter_input_clusters |-> fi,
                  input_clusters_required |-> rq] :
                    i \in SeqsUpTo(InputDicts, MaxInputs), h \in Hosts,
                    f \in ClusterFiles, fi \in BOOLEAN, rq \in BOOLEAN}
    /\ result = <<>>
    /\ phase = "idle"

\* ClusterUtility.filter_clusters(valid_account_clusters, input_clusters,
\* account_id, region)
CallFilterClusters ==
    /\ phase = "idle"
    /\ result' = [op |-> "filter_clusters",
                  value |-> FilterClusters(args.cluster_file,
                                           args.step.input_clusters,
                                           args.step.account_id,
                                           args.step.region)]
    /\ phase' = "returned"
    /\ UNCHANGED args
    /\ UNCHANGED engineVars

\* step.get_relevant_clusters(filter_input_clusters, input_clusters_required)
CallGetRelevantClusters ==
    /\ phase = "idle"
    /\ result' = [op |-> "get_relevant_clusters",
                  value |-> GetRelevantClusters(args.step, args.cluster_file,
                                                args.filter_input_clusters,
                                                args.input_clusters_required)]
    /\ phase' = "returned"
    /\ UNCHANGED args
    /\ UNCHANGED engineVars

NextFilter == CallFilterClusters \/ CallGetRelevantClusters

SpecFilter == InitFilter /\ [][NextFilter]_vars

\* ------------------------------------------------------------------------
\* Properties of the Cluster Filter / Matcher
\* ------------------------------------------------------------------------
\* The positions of the input list whose item the host should keep
KeptPositions ==
    {i \in DOMAIN args.step.input_clusters :
        LET item == args.step.input_clusters[i]
        IN /\ \E v \in DOMAIN args.cluster_file :
                  args.cluster_file[v] = item.ClusterName
           /\ item.AccountId = args.step.account_id
           /\ item.Region = args.step.region}

\* The place a kept position takes among the kept positions
Rank(i) == Cardinality({j \in KeptPositions : j <= i})

\* C7: filter_clusters keeps an input item iff its name is in the visible
\* list and its account and region are the host's; the survivors come in
\* input order, each at most once, and nothing else is in the output.
C7_FilterExact ==
    (phase = "returned" /\ result.op = "filter_clusters") =>
        /\ Len(result.value) = Cardinality(KeptPositions)
        /\ \A i \in KeptPositions :
               result.value[Rank(i)] = args.step.input_clusters[i]

\* C7 witness: visible clusters [a, b], account 111, region us-east-1 and
\* inputs a/111, c/111, b/222: exactly the first item came back.
C7_Witness ==
    /\ phase = "returned"
    /\ result.op = "filter_clusters"
    /\ args.cluster_file = <<"a", "b">>
    /\ args.step.account_id = "111"
    /\ args.step.region = "us-east-1"
    /\ args.step.input_clusters =
           <<InputDict("111", "us-east-1", "a", "1.29"),
             InputDict("111", "us-east-1", "c", Missing),
             InputDict("222", "us-east-1", "b", Missing)>>
    /\ result.value = <<InputDict("111", "us-east-1", "a", "1.29")>>

\* An item that carries the name of a cluster and nothing else
OptionLess(cluster_name) ==
    [account |-> None, region |-> None, cluster |-> cluster_name,
     action |-> None, desired_eks_version |-> None]

\* C8: get_relevant_clusters returns one option-less item per visible cluster
\* exactly when filtering is not requested or the step does not require
\* input and the input list is empty; otherwise only the filtered input.
C8_AllVisibleOrFiltered ==
    (/\ phase = "returned"
     /\ result.op = "get_relevant_clusters"
     /\ result.value.pending = "none") =>
        LET out == result.value.clusters
            input == args.step.input_clusters
        IN IF \/ ~args.filter_input_clusters
              \/ (~args.input_clusters_required /\ Len(input) = 0)
           THEN /\ Len(out) = Len(args.cluster_file)
                /\ \A v \in DOMAIN out : out[v] = OptionLess(args.cluster_file[v])
           ELSE /\ Len(out) = Cardinality(KeptPositions)
                /\ \A i \in KeptPositions :
                       /\ out[Rank(i)].cluster = input[i].ClusterName
                       /\ out[Rank(i)].account = input[i].AccountId
                       /\ out[Rank(i)].region = input[i].Region
                       /\ out[Rank(i)].desired_eks_version =
                              Get(input[i].DesiredEKSVersion)

\* C8 witness: filtering requested of a step that does not require input,
\* with no input given: every visible cluster came back.
C8_Witness ==
    /\ phase = "returned"
    /\ result.op = "get_relevant_clusters"
    /\ args.filter_input_clusters
    /\ ~args.input_clusters_required
    /\ args.step.input_clusters = <<>>
    /\ args.cluster_file = <<"a", "b">>
    /\ result.value.pending = "none"
    /\ Len(result.value.clusters) = 2

\* ------------------------------------------------------------------------
\* Target Resolver (lambdas/layer/python/target.py, dynamodb.py, event.py,
\* factory.py)
\* ------------------------------------------------------------------------
MaxTenants == 2

DEFAULT_TARGET_SSM_EXECUTION_ROLE == "EKSManagement-SSMAutomationExecutionRole"

DEFAULT_TARGET_LOCATION_MAX_CONCURRENCY == "10"

DEFAULT_TARGET_LOCATION_MAX_ERRORS == "1"

\* target.InputTarget
InputTarget(account, region, role) ==
    [Account |-> account, Region |-> region, ExecutionRoleName |-> role]

\* TargetLocation.get_target, from the InputTarget that
\* extract_target_from_input gave
GetTarget(input_target) ==
    LET role == Get(input_target.ExecutionRoleName)
    IN [Accounts |-> <<Get(input_target.Account)>>,
        Regions |-> <<Get(input_target.Region)>>,
        ExecutionRoleName |-> IF role = None
                              THEN DEFAULT_TARGET_SSM_EXECUTION_ROLE
                              ELSE role,
        TargetLocationMaxConcurrency |-> DEFAULT_TARGET_LOCATION_MAX_ERRORS,
        TargetLocationMaxErrors |-> DEFAULT_TARGET_LOCATION_MAX_CONCURRENCY]

\* What the resolvers hand back: a list of Targets, or an exception
Located(target_locations) == [raised |-> FALSE, targets |-> target_locations]

NotLocated == [raised |-> TRUE, targets |-> <<>>]

\* DynamodbTargets.get_input_accounts
GetInputAccounts(eks_clusters) ==
    [accounts |-> {Get(eks_clusters[i].AccountId) : i \in DOMAIN eks_clusters},
     regions |-> {Get(eks_clusters[i].Region) : i \in DOMAIN eks_clusters}]

\* DynamodbTargets.extract_target_from_input
DynamodbExtractTarget(item) == InputTarget(item.Account, item.Region, item.ExecutionRoleName)

\* Mutant: every record of the directory becomes a Target
GetLocationsUsingClusters_Unfiltered(eks_clusters, directory) ==
    IF directory.state = "scan_error"
    THEN NotLocated
    ELSE Located([i \in DOMAIN directory.items |->
                     GetTarget(DynamodbExtractTarget(directory.items[i]))])

\* DynamodbTargets.get_locations_using_clusters; the pages of the scan arrive
\* concatenated in directory.items
GetLocationsUsingClusters(eks_clusters, directory) ==
    LET locations == directory.items
        input == GetInputAccounts(eks_clusters)
        keep(location) ==
            IF Cardinality(input.accounts) > 0 /\ Cardinality(input.regions) > 0
            THEN LET target == DynamodbExtractTarget(location)
                 IN /\ Get(target.Account) \in input.accounts
                    /\ Get(target.Region) \in input.regions
            ELSE TRUE
        kept == SelectSeq(locations, keep)
    IN IF directory.state = "scan_error"
       THEN NotLocated
       ELSE IF Len(locations) = 0
       THEN Located(<<>>)
       ELSE Located([i \in DOMAIN kept |-> GetTarget(DynamodbExtractTarget(kept[i]))])

\* EventTargets.get_locations with EventTargets.extract_target_from_input
EventTargetsGetLocations(input_targets) ==
    IF \E i \in DOMAIN input_targets :
           \/ Get(input_targets[i].AccountId) = None
           \/ Get(input_targets[i].Region) = None
    THEN NotLocated
    ELSE Located([i \in DOMAIN input_targets |->
                     GetTarget(InputTarget(input_targets[i].AccountId,
                                           input_targets[i].Region,
                                           Get(input_targets[i].ExecutionRoleName)))])

\* factory.get_target_locations; DynamodbTargets() raises when the
\* TARGETS_TABLE environment variable is not set
GetTargetLocations(event, eks_clusters, directory) ==
    IF Len(event.Targets) = 0
    THEN IF directory.state = "no_table"
         THEN NotLocated
         ELSE GetLocationsUsingClusters(eks_clusters, directory)
    ELSE EventTargetsGetLocations(event.Targets)

\* The tenant directory and the requests made of the resolver
TenantRecords ==
    {InputTarget("111", "us-east-1", Missing),
     InputTarget("111", "us-west-2", "CustomRole"),
     InputTarget("222", "us-east-1", Missing),
     InputTarget("222", "us-west-2", Missing)}

Directory(state, items) == [state |-> state, items |-> items]

Directories ==
    {Directory("ok", t) : t \in SeqsUpTo(TenantRecords, MaxTenants)}
        \cup {Directory("scan_error", <<>>), Directory("no_table", <<>>)}

ExplicitTarget(account_id, region) ==
    [AccountId |-> account_id, Region |-> region, ExecutionRoleName |-> Missing]

TargetLists ==
    {<<>>,
     <<ExplicitTarget("333", "eu-west-1")>>,
     <<ExplicitTarget("333", "eu-west-1"), ExplicitTarget("333", Missing)>>,
     <<ExplicitTarget("333", "eu-west-1"), ExplicitTarget("333", "eu-west-1")>>,
     <<[ExplicitTarget("444", "eu-west-1") EXCEPT !.ExecutionRoleName = "CustomRole"],
       ExplicitTarget("333", "eu-west-1")>>}

WorkItems ==
    {Cluster("111", "us-east-1", "a", SUMMARY, Absent(EmptyDict)),
     Cluster("222", "us-west-2", "b", SUMMARY, Absent(EmptyDict)),
     Cluster("333", "us-east-1", "c", SUMMARY, Absent(EmptyDict))}

InitTargets ==
    /\ EngineIdle
    /\ args \in {[event |-> Event(<<>>, <<>>, <<>>, <<>>, t),
                  eks_clusters |-> c, directory |-> d] :
                    t \in TargetLists, c \in SeqsUpTo(WorkItems, MaxClusters),
                    d \in Directories}
    /\ result = <<>>
    /\ phase = "idle"

\* get_target_locations(event, eks_clusters)
CallGetTargetLocations ==
    /\ phase = "idle"
    /\ result' = GetTargetLocations(args.event, args.eks_clusters, args.directory)
    /\ phase' = "returned"
    /\ UNCHANGED args
    /\ UNCHANGED engineVars

NextTargets == CallGetTargetLocations

SpecTargets == InitTargets /\ [][NextTargets]_vars

\* ------------------------------------------------------------------------
\* Properties of the Target Resolver
\* ------------------------------------------------------------------------
\* The positions of the directory's records that pass the filter of the
\* given WorkItem list
Passing(work_items, records) ==
    {i \in DOMAIN records :
        \/ work_items = <<>>
        \/ /\ \E w \in DOMAIN work_items :
                  work_items[w].AccountId = records[i].Account
           /\ \E w \in DOMAIN work_items :
                  work_items[w].Region = records[i].Region}

\* C9: with no explicit Targets the resolver returns exactly one Target per
\* record of the directory that passes the filter: every record when the
\* WorkItem list is empty, otherwise the records whose account is among the
\* WorkItems' accounts and whose region is among their regions; one tenant
\* and no WorkItems give exactly one Target.
C9_OneTargetPerPassingRecord ==
    (/\ phase = "returned"
     /\ args.event.Targets = <<>>
     /\ args.directory.state = "ok") =>
        LET records == args.directory.items
            passing == Passing(args.eks_clusters, records)
            place(i) == Cardinality({j \in passing : j <= i})
        IN /\ ~result.raised
           /\ Len(result.targets) = Cardinality(passing)
           /\ \A i \in passing :
                  /\ result.targets[place(i)].Accounts = <<records[i].Account>>
                  /\ result.targets[place(i)].Regions = <<records[i].Region>>
           /\ (Len(records) = 1 /\ args.eks_clusters = <<>>) =>
                  Len(result.targets) = 1

\* C9 witness: a directory of two tenants and a non-empty WorkItem list that
\* lets exactly one of them through.
C9_Witness ==
    /\ phase = "returned"
    /\ args.event.Targets = <<>>
    /\ args.directory.state = "ok"
    /\ Len(args.directory.items) = 2
    /\ Len(args.eks_clusters) > 0
    /\ ~result.raised
    /\ Len(result.targets) = 1

\* ------------------------------------------------------------------------
\* Automation Launcher (lambdas/layer/python/ssmautomation.py and the
\* lambda_function.py of each pipeline)
\* ------------------------------------------------------------------------
\* input_clusters_required as each lambda function constructs itself
InputClustersRequired(lambda_name) ==
    CASE lambda_name = "upgrade" -> TRUE
      [] lambda_name = "backup" -> TRUE
      [] lambda_name = "summary" -> FALSE

\* The dict execution returns, with the automations started on the way
Response(status_code, message, automations) ==
    [StatusCode |-> status_code, Message |-> message, automations |-> automations]

\* What the block that resolves the targets leaves: a response to return, or
\* the target locations to go on with
Resolved(target_locations) ==
    [returns |-> FALSE, response |-> Response(0, "", <<>>),
     target_locations |-> target_locations]

Returns(response) ==
    [returns |-> TRUE, response |-> response, target_locations |-> <<>>]

\* Mutant: an empty list of targets is reported like a failure to fetch them
ResolveTargets_EmptyIsError(event, eks_clusters, directory) ==
    LET located == GetTargetLocations(event, eks_clusters, directory)
    IN IF located.raised \/ Len(located.targets) = 0
       THEN Returns(Response(500, "Error while fetching targets", <<>>))
       ELSE Resolved(located.targets)

\* The inner try block of AutomationFunction.execution (lines 159-183)
ResolveTargets(event, eks_clusters, directory) ==
    LET located == GetTargetLocations(event, eks_clusters, directory)
    IN IF located.raised
       THEN Returns(Response(500, "Error while fetching targets", <<>>))
       ELSE IF Len(located.targets) = 0
       THEN Returns(Response(404, "Account details not found. Run /tenants/onboard API to onboard the tenants to DynamoDB", <<>>))
       ELSE Resolved(located.targets)

\* SSMAutomation() and start_automation (lines 191-224): ssm_ok is whether
\* the environment is complete and the service accepts the call
StartAutomation(target_locations, ssm_ok) ==
    IF ssm_ok
    THEN Response(200, "", <<[TargetLocations |-> target_locations]>>)
    ELSE Response(500, "Error while starting automation", <<>>)

\* AutomationFunction.execution; self holds name and input_clusters_required.
\* eks_clusters and target_locations are local variables: each is computed
\* once, by the call assigned to it, and bound here as the one element of a set
Execution(self, event, accept_input_clusters, default_options, directory, ssm_ok) ==
    LET afterTargets(resolved) ==
            IF resolved.returns
            THEN resolved.response
            ELSE StartAutomation(resolved.target_locations, ssm_ok)
        afterInput(input) ==
            IF input.raised
            THEN Response(500, input.message, <<>>)
            ELSE IF /\ accept_input_clusters
                    /\ Len(input.clusters) = 0
                    /\ self.input_clusters_required
            THEN Response(404, "No clusters provided", <<>>)
            ELSE CHOOSE response \in
                     {afterTargets(resolved) :
                         resolved \in {ResolveTargets(event, input.clusters, directory)}} :
                     TRUE
    IN CHOOSE response \in
           {afterInput(input) :
               input \in {IF accept_input_clusters
                          THEN GetInputClusters(self.name, event, default_options)
                          ELSE Returned(<<>>)}} :
           TRUE

\* The events a lambda may be invoked with
ExecutionEvents(lambda_name) ==
    CASE lambda_name = "backup" ->
           {Event(<<>>, <<>>, b, r, t) :
               b \in SeqsUpTo(BackupItems, 1), r \in SeqsUpTo(RestoreItems, 1),
               t \in TargetLists}
      [] lambda_name = "upgrade" ->
           {Event(<<>>, u, b, <<>>, t) :
               u \in SeqsUpTo(UpgradeItems, 1), b \in SeqsUpTo(BackupItems, 1),
               t \in TargetLists}
      [] lambda_name = "summary" ->
           {Event(s_, <<>>, <<>>, <<>>, t) :
               s_ \in SeqsUpTo(SummaryItems, 1), t \in TargetLists}

InitExecution ==
    /\ EngineIdle
    /\ \E lambda_name \in LambdaNames :
           args \in {[lambda_name |-> lambda_name, event |-> e, directory |-> d,
                      ssm_ok |-> ok] :
                        e \in ExecutionEvents(lambda_name), d \in Directories,
                        ok \in BOOLEAN}
    /\ result = <<>>
    /\ phase = "idle"

\* lambda_handler: function.execution(event, accept_input_clusters=True,
\* default_options=...) of the upgrade, backup and summary lambdas
CallExecution ==
    /\ phase = "idle"
    /\ result' = Execution([name |-> args.lambda_name,
                            input_clusters_required |->
                                InputClustersRequired(args.lambda_name)],
                           args.event, TRUE, DefaultOptions(args.lambda_name),
                           args.directory, args.ssm_ok)
    /\ phase' = "returned"
    /\ UNCHANGED args
    /\ UNCHANGED engineVars

NextExecution == CallExecution

SpecExecution == InitExecution /\ [][NextExecution]_vars

\* ------------------------------------------------------------------------
\* Properties of the Automation Launcher
\* ------------------------------------------------------------------------
\* The pipeline requires input clusters and its buckets hold none
NoClustersSupplied ==
    args.lambda_name \in {"upgrade", "backup"} /\ NormalizedItems = <<>>

\* The request passes normalization and its targets resolve to none
ZeroTargetsResolved ==
    LET normalized == GetInputClusters(args.lambda_name, args.event,
                                       DefaultOptions(args.lambda_name))
    IN /\ ~normalized.raised
       /\ ~NoClustersSupplied
       /\ args.event.Targets = <<>>
       /\ args.directory.state = "ok"
       /\ Passing(normalized.clusters, args.directory.items) = {}

\* C10: execution returns StatusCode 404, not 500, when target resolution
\* completes with zero Targets and when the pipeline requires input clusters
\* and none were supplied; in both cases no SSM automation is started.
C10_NotFoundIs404 ==
    (phase = "returned" /\ (NoClustersSupplied \/ ZeroTargetsResolved)) =>
        (result.StatusCode = 404 /\ result.automations = <<>>)

\* C10 witness: a request with a valid cluster and a directory that has
\* tenants, none of them for that cluster's account and region: 404.
C10_Witness ==
    /\ phase = "returned"
    /\ ZeroTargetsResolved
    /\ NormalizedItems # <<>>
    /\ Len(args.directory.items) > 0
    /\ result.StatusCode = 404

\* The request holds a work item that fails the normalizer's validation:
\* the normalizer raises with one of its validation messages.
ValidationFails ==
    LET normalized == GetInputClusters(args.lambda_name, args.event,
                                       DefaultOptions(args.lambda_name))
    IN /\ normalized.raised
       /\ normalized.message \notin {"AttributeError", "TypeError"}

\* C11: a request with a work item that fails normalizer validation is
\* answered with StatusCode 422, and StatusCode 500 is returned only for
\* failures that are neither input validation nor missing targets/clusters.
C11_ValidationIs422 ==
    phase = "returned" =>
        /\ ValidationFails => result.StatusCode = 422
        /\ result.StatusCode = 500 =>
               ~(ValidationFails \/ NoClustersSupplied \/ ZeroTargetsResolved)

\* ------------------------------------------------------------------------
\* Properties of the control-plane upgrade step
\* ------------------------------------------------------------------------
\* The minor number of a version string
VersionMinor(v) ==
    CASE v = "1.28" -> 28
      [] v = "1.29" -> 29
      [] v = "1.3" -> 3
      [] v = "1.30" -> 30
      [] v = "1.37" -> 37
      [] v = "1.38" -> 38

\* The upgrade script was invoked for the i-th cluster
UpgradeScriptInvokedAt(i) ==
    \E j \in DOMAIN events :
        /\ events[j].kind = "script"
        /\ events[j].arg = "upgrade_version.sh"
        /\ events[j].idx = i

\* C12: the control-plane step invokes the upgrade script only when the
\* desired version is exactly one minor above the cluster's current version;
\* when desired equals current it records No Action and continues; for any
\* other desired version it records Not supported and aborts the run, so no
\* further cluster of the batch is processed.
C12_OneMinorStepOnly ==
    \A k \in DOMAIN events :
        events[k].kind = "details" =>
            LET i == events[k].idx
                c == events[k].cluster
                current == events[k].arg
                desired == clusters[i].desired_eks_version
                oneAbove == VersionMinor(desired) = VersionMinor(current) + 1
            IN /\ UpgradeScriptInvokedAt(i) => oneAbove
               /\ (desired = current /\ i = idx /\ pc = "finally") =>
                      /\ reports[c].content["ClusterUpdateStatus"] = "No Action"
                      /\ pending = "none"
               /\ (desired # current /\ ~oneAbove) =>
                      /\ i = idx
                      /\ Aborting
                      /\ reports[c].content["ClusterUpdateStatus"] = "Not supported"

\* ------------------------------------------------------------------------
\* Addon.update called on one addon (scripts/lib/addon.py)
\* ------------------------------------------------------------------------
AddonNames == {"coredns", "adot", "my-addon"}
AddonStatuses == {ACTIVE_STATUS, "DEGRADED"}
AddonVersions == {"v1", "v2"}
RequestedAddons ==
    {<<>>, <<"coredns">>, <<"coredns", "my-addon">>, DEFAULT_ADDONS_FOR_UPDATE}

InitAddon ==
    /\ EngineIdle
    /\ args \in {[addon |-> AddonRec(n, s, v, u, e), input_addons |-> r] :
                    n \in AddonNames, s \in AddonStatuses, v \in AddonVersions,
                    u \in AddonVersions, e \in ExitCodes, r \in RequestedAddons}
    /\ result = <<>>
    /\ phase = "idle"

\* Addon(...).update(addon_details, input_addons, progress) with a new Progress
CallAddonUpdate ==
    /\ phase = "idle"
    /\ result' = AddonUpdate(args.addon, args.input_addons, NewProgress)
    /\ phase' = "returned"
    /\ UNCHANGED args
    /\ UNCHANGED engineVars

NextAddon == CallAddonUpdate

SpecAddon == InitAddon /\ [][NextAddon]_vars

\* The class the ordered rules give an addon
AddonClass(addon, input_addons) ==
    IF addon.name \notin SeqToSet(input_addons)
    THEN IF addon.name \in SUPPORTED_ADDONS_FOR_UPDATE
         THEN "not_requested" ELSE "not_supported"
    ELSE IF addon.status # ACTIVE_STATUS THEN "not_active"
    ELSE IF addon.update_version = addon.addonVersion THEN "no_action"
    ELSE IF addon.exit = 0 THEN "updated"
    ELSE "failed"

\* The status written in the row of an addon of a class
ClassStatus(class) ==
    CASE class = "updated" -> "Success"
      [] class = "failed" -> "Failure"
      [] class = "no_action" -> "No Action"
      [] OTHER -> "Update Manually"

\* C13: Addon.update classifies an addon by the first matching rule - not in
\* the requested set: not requested if generally supported, else not
\* supported; status not ACTIVE: not active; update version equal to the
\* current version: no action; otherwise updated or failed by the script's
\* exit status - and the update script runs only in the last case.
C13_FirstMatchingRule ==
    phase = "returned" =>
        LET class == AddonClass(args.addon, args.input_addons)
        IN /\ result.progress = Increment(NewProgress, class)
           /\ result.row.UpdateStatus = ClassStatus(class)
           /\ result.row.Name = args.addon.name
           /\ result.script = (class \in {"updated", "failed"})

\* C13 witness: an addon that is not requested, not ACTIVE and already at the
\* update version: the first rule decides.
C13_Witness ==
    /\ phase = "returned"
    /\ args.addon.name \notin SeqToSet(args.input_addons)
    /\ args.addon.status # ACTIVE_STATUS
    /\ args.addon.update_version = args.addon.addonVersion
    /\ result.progress["not_requested"] = 1
    /\ ~result.script

\* ------------------------------------------------------------------------
\* Addon version selection (scripts/lib/ekshelper.py)
\* ------------------------------------------------------------------------
MaxVersions == 3

\* ord(ch) of the characters of a version string
Ord(ch) ==
    CASE ch = "-" -> 45 [] ch = "." -> 46
      [] ch = "0" -> 48 [] ch = "1" -> 49 [] ch = "2" -> 50 [] ch = "3" -> 51
      [] ch = "4" -> 52 [] ch = "5" -> 53 [] ch = "6" -> 54 [] ch = "7" -> 55
      [] ch = "8" -> 56 [] ch = "9" -> 57
      [] ch = "b" -> 98 [] ch = "d" -> 100 [] ch = "e" -> 101 [] ch = "i" -> 105
      [] ch = "k" -> 107 [] ch = "l" -> 108 [] ch = "s" -> 115 [] ch = "u" -> 117
      [] ch = "v" -> 118

CharAt(s, i) == SubSeq(s, i, i)

\* a < b for Python strings, compared from character i on
RECURSIVE StrLess(_, _, _)
StrLess(a, b, i) ==
    IF i > Len(a) THEN i <= Len(b)
    ELSE IF i > Len(b) THEN FALSE
    ELSE IF CharAt(a, i) = CharAt(b, i) THEN StrLess(a, b, i + 1)
    ELSE Ord(CharAt(a, i)) < Ord(CharAt(b, i))

\* The index of the first "." of s at or after i, Len(s) + 1 if there is none
RECURSIVE FindDot(_, _)
FindDot(s, i) ==
    IF i > Len(s) \/ CharAt(s, i) = "." THEN i ELSE FindDot(s, i + 1)

\* int(digits)
RECURSIVE ToInt(_, _, _)
ToInt(digits, i, acc) ==
    IF i > Len(digits) THEN acc
    ELSE ToInt(digits, i + 1, 10 * acc + (Ord(CharAt(digits, i)) - Ord("0")))

\* EKSHelper.extract_minor_version: int(addon_version.split(".")[1])
ExtractMinorVersion(addon_version) ==
    LET first == FindDot(addon_version, 1)
        second == FindDot(addon_version, first + 1)
    IN ToInt(SubSeq(addon_version, first + 1, second - 1), 1, 0)

\* EKSHelper.get_default_addon_version: the first entry flagged default
GetDefaultAddonVersion(addon_versions) ==
    LET flagged == {i \in DOMAIN addon_versions : addon_versions[i].defaultVersion}
    IN IF flagged = {} THEN None
       ELSE addon_versions[CHOOSE i \in flagged : \A j \in flagged : i <= j].addonVersion

\* [i for i in xs if keep(i)]
RECURSIVE AtMinor(_, _, _)
AtMinor(addon_versions, minor, i) ==
    IF i > Len(addon_versions) THEN <<>>
    ELSE IF ExtractMinorVersion(addon_versions[i].addonVersion) = minor
    THEN <<addon_versions[i]>> \o AtMinor(addon_versions, minor, i + 1)
    ELSE AtMinor(addon_versions, minor, i + 1)

\* sorted(versions, key=lambda i: i["addonVersion"])[0].get("addonVersion")
SortedFirst(versions) ==
    LET names == {versions[i].addonVersion : i \in DOMAIN versions}
    IN CHOOSE n \in names : \A m \in names : ~StrLess(m, n, 1)

\* Mutant: the default flag is not looked at
GetNextMinorAddonVersion_NoDefault(addon_version, addon_versions, need_default_version) ==
    LET all_minor_versions ==
            AtMinor(addon_versions, ExtractMinorVersion(addon_version) + 1, 1)
    IN IF Len(all_minor_versions) = 0 THEN addon_version
       ELSE SortedFirst(all_minor_versions)

\* EKSHelper.get_next_minor_addon_version
GetNextMinorAddonVersion(addon_version, addon_versions, need_default_version) ==
    LET next_minor_version == ExtractMinorVersion(addon_version) + 1
        all_minor_versions == AtMinor(addon_versions, next_minor_version, 1)
        default_version == GetDefaultAddonVersion(all_minor_versions)
    IN IF Len(all_minor_versions) = 0 THEN addon_version
       ELSE IF /\ need_default_version
               /\ default_version # None
               /\ next_minor_version = ExtractMinorVersion(default_version)
       THEN default_version
       ELSE SortedFirst(all_minor_versions)

\* The entries extract_details_from_addon_versions builds
AddonVersion(addon_version, default_version) ==
    [addonVersion |-> addon_version, defaultVersion |-> default_version]

CurrentAddonVersions == {"v1.1.0-eksbuild.1", "v1.2.1-eksbuild.1"}

AvailableAddonVersions ==
    {AddonVersion(v, d) :
        v \in {"v1.1.0-eksbuild.1", "v1.2.0-eksbuild.1", "v1.2.1-eksbuild.1",
               "v1.2.10-eksbuild.1", "v1.3.0-eksbuild.1"},
        d \in BOOLEAN}

InitAddonVersion ==
    /\ EngineIdle
    /\ args \in {[addon_version |-> v, addon_versions |-> a] :
                    v \in CurrentAddonVersions,
                    a \in SeqsUpTo(AvailableAddonVersions, MaxVersions)}
    /\ result = <<>>
    /\ phase = "idle"

\* MinorVersionAddonUpdate.get_update_version: need_default_version is left
\* at its default, True
CallGetNextMinorAddonVersion ==
    /\ phase = "idle"
    /\ result' = GetNextMinorAddonVersion(args.addon_version, args.addon_versions, TRUE)
    /\ phase' = "returned"
    /\ UNCHANGED args
    /\ UNCHANGED engineVars

NextAddonVersion == CallGetNextMinorAddonVersion

SpecAddonVersion == InitAddonVersion /\ [][NextAddonVersion]_vars

\* The available versions at the minor after the current one
NextMinorVersions ==
    {e \in SeqToSet(args.addon_versions) :
        ExtractMinorVersion(e.addonVersion)
            = ExtractMinorVersion(args.addon_version) + 1}

\* C14: get_next_minor_addon_version returns, among the available versions
\* at the current minor plus one, the one flagged default if there is one and
\* otherwise the lexicographically smallest; with no version at the next
\* minor it returns the current version, so it never skips a minor.
C14_NextMinorSelection ==
    phase = "returned" =>
        LET defaults == {e \in NextMinorVersions : e.defaultVersion}
        IN /\ NextMinorVersions = {} => result = args.addon_version
           /\ defaults # {} => result \in {e.addonVersion : e \in defaults}
           /\ (NextMinorVersions # {} /\ defaults = {}) =>
                  /\ result \in {e.addonVersion : e \in NextMinorVersions}
                  /\ \A e \in NextMinorVersions : ~StrLess(e.addonVersion, result, 1)
           /\ ExtractMinorVersion(result) - ExtractMinorVersion(args.addon_version)
                  \in {0, 1}

\* C14 witness: current v1.1.0-eksbuild.1; at the next minor v1.2.0-eksbuild.1
\* (smallest, not default) and v1.2.1-eksbuild.1 (default); a default two
\* minors ahead: the result is the default of the next minor.
C14_Witness ==
    /\ phase = "returned"
    /\ args.addon_version = "v1.1.0-eksbuild.1"
    /\ args.addon_versions = <<AddonVersion("v1.3.0-eksbuild.1", TRUE),
                               AddonVersion("v1.2.0-eksbuild.1", FALSE),
                               AddonVersion("v1.2.1-eksbuild.1", TRUE)>>
    /\ result = "v1.2.1-eksbuild.1"

\* ========================================================================
\* BACKUP AND RESTORE STEPS (scripts/backup)
\* ========================================================================
SERVICE_ACCOUNT_STEP == "serviceAccount"
VELERO_PLUGIN_STEP == "veleroPlugin"
VELERO_BACKUP_STEP == "veleroBackup"
VELERO_RESTORE_STEP == "veleroRestore"

\* str.lower() on the characters of the names modelled
LowerChar(ch) ==
    CASE ch = "A" -> "a" [] ch = "N" -> "n" [] ch = "P" -> "p" [] OTHER -> ch

RECURSIVE LowerFrom(_, _)
LowerFrom(s, i) ==
    IF i > Len(s) THEN "" ELSE LowerChar(CharAt(s, i)) \o LowerFrom(s, i + 1)

Lower(s) == LowerFrom(s, 1)

\* A work item as InputCluster(input_cluster) holds it: BackupOptions and
\* RestoreOptions carry None for the options the item does not give
BackupCluster(cluster, action, backup_name, restore_backup_name) ==
    [cluster |-> cluster, action |-> action,
     backup_options |-> [backup_name |-> backup_name,
                         velero_namespace |-> "velero",
                         service_account |-> "velero-sa"],
     restore_options |-> [backup_name |-> restore_backup_name]]

\* InputCluster.is_backup, InputCluster.is_restore
IsBackup(input_cluster) == input_cluster.action = BACKUP
IsRestore(input_cluster) == input_cluster.action = RESTORE

\* VeleroBackupStep.get_backup_name; date is datetime.now().date()
GetBackupName(input_cluster, region, date) ==
    LET backup_name == input_cluster.backup_options.backup_name
    IN IF backup_name = None
       THEN date \o "-" \o region \o "-" \o input_cluster.cluster
       ELSE Lower(backup_name)

\* ---- the Fargate check of EKSHelper -------------------------------------
\* describe_fargate_profile: the status and the namespaces of the selectors
FargateProfile(status, namespaces) == [status |-> status, selectors |-> namespaces]

\* What the EKS API lists for a cluster
ClusterFacts(node_groups, fargate_profiles) ==
    [node_groups |-> node_groups, fargate_profiles |-> fargate_profiles]

\* EKSHelper.is_fargate_cluster
IsFargateCluster(facts) ==
    Len(facts.node_groups) = 0 /\ Len(facts.fargate_profiles) > 0

\* EKSHelper.check_namespace_selector
CheckNamespaceSelector(profile, velero_namespace) ==
    /\ profile.status = ACTIVE_STATUS
    /\ \E i \in DOMAIN profile.selectors : profile.selectors[i] = velero_namespace

\* EKSHelper.check_namespace_selector_all_profiles
CheckNamespaceSelectorAllProfiles(facts, namespace) ==
    \E i \in DOMAIN facts.fargate_profiles :
        CheckNamespaceSelector(facts.fargate_profiles[i], namespace)

\* Mutant: a cluster with Fargate profiles always passes
FargateClusterCheck_AlwaysPass(facts, namespace) == "PASS"

\* EKSHelper.fargate_cluster_check
FargateClusterCheck(facts, namespace) ==
    IF IsFargateCluster(facts) /\ ~CheckNamespaceSelectorAllProfiles(facts, namespace)
    THEN "FAIL"
    ELSE "PASS"

\* ---- the steps -----------------------------------------------------------
\* dict[k1] = v1; ...: the assignments of a step, in order
RECURSIVE PutAll(_, _)
PutAll(content, assignments) ==
    IF assignments = <<>> THEN content
    ELSE PutAll(Put(content, assignments[1][1], assignments[1][2]), Tail(assignments))

\* The outcome of a step's run: the log, the report file, what propagates
Outcome(log, report, propagating) ==
    [log |-> log, report |-> report, pending |-> propagating]

\* ServiceAccountStep.run and create_service_account: every branch writes a
\* new dict to the report file
ServiceAccountRun(input_cluster, kubeOk, present, resp, report, log) ==
    LET service_account == input_cluster.backup_options.service_account
        written(status, message) ==
            ReportOf([ServiceAccount |-> service_account,
                      ServiceAccountStatus |-> status, Message |-> message])
    IN IF IsRestore(input_cluster)
       THEN Outcome(log, written("No Action", "Backup action is not present in input"), "none")
       ELSE IF ~kubeOk
       THEN Outcome(log, report, ExecutionUtilityStop.pending)
       ELSE IF present
       THEN Outcome(log, written("Already present", "Service Account already created"), "none")
       ELSE IF resp = 0
       THEN Outcome(Append(log, EvRc("script", "create_service_account.sh", resp)),
                    written("Created", "Service Account created"), "none")
       ELSE Outcome(Append(log, EvRc("script", "create_service_account.sh", resp)),
                    written("Failed", "Service Account creation failed"),
                    ExecutionUtilityStop.pending)

\* The try block of VeleroPluginInstallStep.run (lines 38-137)
VeleroPluginTry(input_cluster, existing_report, apiOk, facts, pods, resp, pod_status, log) ==
    IF IsRestore(input_cluster)
    THEN Outcome(log, ReportOf(PutAll(existing_report,
                     << <<"PodStatus", "No Action">>,
                        <<"Message", "Backup action is not present in input">> >>)), "none")
    ELSE IF ~apiOk
    THEN \* list_nodegroups: ClientError -> ExecutionUtility.stop()
         Outcome(Append(log, Ev("describe", ApiError)), ReportOf(existing_report),
                 ExecutionUtilityStop.pending)
    ELSE IF FargateClusterCheck(facts, input_cluster.backup_options.velero_namespace) = "FAIL"
    THEN Outcome(log, ReportOf(PutAll(existing_report,
                     << <<"PodStatus", "Failure">>,
                        <<"Message", "Fargate profile not present for namespace.">> >>)),
                 ExecutionUtilityStop.pending)
    ELSE IF pods > 0
    THEN Outcome(log, ReportOf(PutAll(existing_report,
                     << <<"PodStatus", pod_status>>,
                        <<"Message", "Velero Plugin already installed">> >>)), "none")
    ELSE IF resp = 0
    THEN Outcome(Append(log, EvRc("script", "install_velero_plugin.sh", resp)),
                 ReportOf(PutAll(existing_report,
                     << <<"PodStatus", pod_status>>,
                        <<"Message", "Velero Plugin installation completed">> >>)), "none")
    ELSE Outcome(Append(log, EvRc("script", "install_velero_plugin.sh", resp)),
                 ReportOf(PutAll(existing_report,
                     << <<"PodStatus", "Failure">>,
                        <<"Message", "Velero Plugin installation failed.">> >>)),
                 ExecutionUtilityStop.pending)

\* run_shell of a Velero script: the call is logged with the backup name
\* among its arguments
ScriptEv(script, resp, backup_name) ==
    EvRc("script", script, resp) @@ [backup_name |-> backup_name]

\* velero's phase as status_json.get("phase", "Failure") reads it
VeleroPhases == {"Completed", "PartiallyFailed", "Failed", Missing}

\* The try block of VeleroBackupStep.run (lines 42-185)
VeleroBackupTry(input_cluster, existing_report, backup_name, apiOk, eks_version, facts, resp, status_phase, log) ==
    LET written(status, name, location, message) ==
            ReportOf(PutAll(existing_report,
                << <<"BackupStatus", status>>, <<"BackupName", name>>,
                   <<"BackupLocation", location>>, <<"ClusterVersion", eks_version>>,
                   <<"Message", message>> >>))
        invoked == Append(log, ScriptEv("create_backup.sh", resp, backup_name))
        status == GetOr(status_phase, "Failure")
    IN IF ~apiOk
       THEN \* get_eks_cluster_details: ClientError -> ExecutionUtility.stop()
            Outcome(Append(log, Ev("describe", ApiError)), ReportOf(existing_report),
                    ExecutionUtilityStop.pending)
       ELSE IF ~IsBackup(input_cluster)
       THEN Outcome(log, written("No Action", "N/A", "N/A",
                                 "Backup action is not present in input"), "none")
       ELSE IF FargateClusterCheck(facts, input_cluster.backup_options.velero_namespace) = "FAIL"
       THEN Outcome(log, written("Failure", backup_name, "N/A",
                                 "Fargate profile not present for namespace. Velero plugin may not be installed."),
                    ExecutionUtilityStop.pending)
       ELSE IF resp # 0
       THEN Outcome(invoked, written("Failed", backup_name, "N/A",
                                     "Backup creation script failed"),
                    ExecutionUtilityStop.pending)
       ELSE IF status # "Completed"
       THEN Outcome(invoked, written(status, backup_name, "N/A",
                                     "Backup creation not completed."),
                    ExecutionUtilityStop.pending)
       ELSE Outcome(invoked, written(status, backup_name, <<"backups", backup_name>>,
                                     "Backup creation completed."), "none")

\* The try block of VeleroRestoreStep.run (lines 43-139)
VeleroRestoreTry(input_cluster, existing_report, resp, status_phase, log) ==
    LET supplied == input_cluster.restore_options.backup_name
        \* Velero needs backup names in lower cases
        backup_name == Lower(supplied)
        invoked == Append(log, ScriptEv("create_restore.sh", resp, backup_name))
        status == GetOr(status_phase, "Failure")
    IN IF ~IsRestore(input_cluster)
       THEN Outcome(log, ReportOf(PutAll(existing_report,
                        << <<"RestoreStatus", "No Action">>,
                           <<"Message", "Restore action not present in input.">>,
                           <<"RestoreBackupLocation", "N/A">> >>)), "none")
       ELSE IF supplied = None
       THEN \* None.lower(): AttributeError -> except -> ExecutionUtility.stop()
            Outcome(log, ReportOf(existing_report), ExecutionUtilityStop.pending)
       ELSE IF resp # 0
       THEN Outcome(invoked, ReportOf(PutAll(existing_report,
                        << <<"RestoreStatus", "Failed">>,
                           <<"Message", "Restore creation script failed">>,
                           <<"BackupName", backup_name>>,
                           <<"RestoreBackupLocation", "N/A">> >>)),
                    ExecutionUtilityStop.pending)
       ELSE Outcome(invoked, ReportOf(PutAll(existing_report,
                        << <<"BackupName", backup_name>>,
                           <<"RestoreStatus", status>>,
                           <<"RestoreBackupLocation", <<"backups", backup_name>> >>,
                           <<"Message", IF status = "Failure"
                                        THEN "Restore creation failed"
                                        ELSE "Cluster restored">> >>)),
                    IF status = "Failure" THEN ExecutionUtilityStop.pending ELSE "none")

\* ---- one pipeline run over one cluster of a host -------------------------
REPORTS_CONFIG == "reportsCleanup"

BackupClusterNames == {"a", "Prod-A"}
BackupNames == {None, "nightly", "Nightly-A"}

\* The work items of the backup pipeline: Backup items, and Restore items
\* (which carry no BackupOptions)
BackupClusters ==
    {BackupCluster(c, BACKUP, n, None) : c \in BackupClusterNames, n \in BackupNames}
        \cup {BackupCluster(c, RESTORE, None, n) : c \in {"a"}, n \in BackupNames}

FargateProfileLists ==
    {<<>>,
     <<FargateProfile(ACTIVE_STATUS, <<"default">>)>>,
     <<FargateProfile("CREATING", <<"velero">>)>>,
     <<FargateProfile(ACTIVE_STATUS, <<"default">>),
       FargateProfile(ACTIVE_STATUS, <<"kube-system", "velero">>)>>}

ClusterFactsSet ==
    {ClusterFacts(n, f) : n \in {<<>>, <<"ng1">>}, f \in FargateProfileLists}

UpgradeClusters == {InputCluster("a", d, <<>>) : d \in {"1.29", "1.30"}}

\* reportsCleanup has run: no report file; no step has started
InitPipeline ==
    /\ step = REPORTS_CONFIG
    /\ \E item \in BackupClusters \cup UpgradeClusters : clusters = <<item>>
    /\ idx = 1
    /\ pc = "ready"
    /\ pending = "none"
    /\ exitCode = -1
    /\ events = <<>>
    /\ reports = [c \in BackupClusterNames |-> NoReport]
    /\ csvReports = <<>>
    /\ args \in {[region |-> "us-east-1", date |-> "2024-06-02", facts |-> f] :
                    f \in ClusterFactsSet}
    /\ result = <<>>
    /\ phase = "idle"

\* The step has been started in this run
Started(step_name) ==
    \E k \in DOMAIN events : events[k].kind = "run" /\ events[k].arg = step_name

\* The process of a step ends: exit status 0 and the next step of the
\* document may start, or a non-zero status that halts the automation
StepEnds(step_name, out) ==
    /\ step' = step_name
    /\ events' = out.log
    /\ reports' = [reports EXCEPT ![clusters[idx].cluster] = out.report]
    /\ pending' = out.pending
    /\ pc' = IF out.pending = "none" THEN "ready" ELSE "exited"
    /\ exitCode' = IF out.pending = "none" THEN exitCode ELSE ExecutionUtilityStop.code
    /\ UNCHANGED <<clusters, idx, csvReports>>
    /\ UNCHANGED callVars

\* A step of the pipeline of the work item may start
MayStart(step_name, backup_pipeline) ==
    /\ pc = "ready"
    /\ ~Started(step_name)
    /\ ("backup_options" \in DOMAIN clusters[idx]) = backup_pipeline

\* read_json_file(json_file) before the try block: raises without the file
Unreadable(log) == Outcome(log, reports[clusters[idx].cluster], "exc")

\* ServiceAccountStep.run(input_cluster)
RunServiceAccount ==
    /\ MayStart(SERVICE_ACCOUNT_STEP, TRUE)
    /\ \E kubeOk \in BOOLEAN, present \in BOOLEAN, resp \in ExitCodes :
         StepEnds(SERVICE_ACCOUNT_STEP,
                  ServiceAccountRun(clusters[idx], kubeOk, present, resp,
                                    reports[clusters[idx].cluster],
                                    Append(events, Ev("run", SERVICE_ACCOUNT_STEP))))

\* VeleroPluginInstallStep.run(input_cluster)
RunVeleroPlugin ==
    /\ MayStart(VELERO_PLUGIN_STEP, TRUE)
    /\ \E apiOk \in BOOLEAN, pods \in {0, 1}, resp \in ExitCodes,
          pod_status \in {"Running", "Pending"} :
         LET file == reports[clusters[idx].cluster]
             started == Append(events, Ev("run", VELERO_PLUGIN_STEP))
         IN StepEnds(VELERO_PLUGIN_STEP,
                     IF ~file.exists THEN Unreadable(started)
                     ELSE VeleroPluginTry(clusters[idx], file.content, apiOk, args.facts,
                                          pods, resp, pod_status, started))

\* VeleroBackupStep.run(input_cluster)
RunVeleroBackup ==
    /\ MayStart(VELERO_BACKUP_STEP, TRUE)
    /\ \E apiOk \in BOOLEAN, eks_version \in {"1.29"}, resp \in ExitCodes,
          status_phase \in VeleroPhases :
         LET file == reports[clusters[idx].cluster]
             started == Append(events, Ev("run", VELERO_BACKUP_STEP))
             backup_name == GetBackupName(clusters[idx], args.region, args.date)
         IN StepEnds(VELERO_BACKUP_STEP,
                     IF ~file.exists THEN Unreadable(started)
                     ELSE VeleroBackupTry(clusters[idx], file.content, backup_name, apiOk,
                                          eks_version, args.facts, resp, status_phase,
                                          started))

\* VeleroRestoreStep.run(input_cluster)
RunVeleroRestore ==
    /\ MayStart(VELERO_RESTORE_STEP, TRUE)
    /\ \E resp \in ExitCodes, status_phase \in VeleroPhases :
         LET file == reports[clusters[idx].cluster]
             started == Append(events, Ev("run", VELERO_RESTORE_STEP))
         IN StepEnds(VELERO_RESTORE_STEP,
                     IF ~file.exists THEN Unreadable(started)
                     ELSE VeleroRestoreTry(clusters[idx], file.content, resp,
                                           status_phase, started))

\* Mutant: cluster_status writes a report of its own
ClusterStatusReport_Fresh(file, status) == ReportOf([ClusterStatus |-> status])

\* BaseStep.cluster_status on the report file: the file is read if it is
\* there and ClusterStatus is assigned, else it is created
ClusterStatusReport(file, status) ==
    ReportOf(Put(IF file.exists THEN file.content ELSE EmptyContent,
                 "ClusterStatus", status))

\* cluster_status stops the step of a cluster that is not ACTIVE
NotActiveStop(log, file, status) ==
    Outcome(log, ClusterStatusReport(file, status), ExecutionUtilityStop.pending)

\* ControlPlaneUpdateStep: cluster_status, then run(input_cluster)
RunUpgradeControlPlane ==
    /\ MayStart(CONTROL_PLANE_UPGRADE_STEP, FALSE)
    /\ \E status \in ClusterStatuses, eks_version \in {"1.28", "1.29"}, resp \in ExitCodes :
         LET file == reports[clusters[idx].cluster]
             started == Append(events, Ev("run", CONTROL_PLANE_UPGRADE_STEP))
         IN StepEnds(CONTROL_PLANE_UPGRADE_STEP,
                     IF status # ACTIVE_STATUS THEN NotActiveStop(started, file, status)
                     ELSE ControlPlaneTry(ClusterStatusReport(file, status).content,
                                          eks_version, clusters[idx].desired_eks_version,
                                          resp, started))

\* What populate_existing_report leaves: a KeyError on Message is caught by
\* the step and ends in ExecutionUtility.stop()
Populated(log, before, pop) ==
    IF pop.raised THEN Outcome(log, before, ExecutionUtilityStop.pending)
    ELSE Outcome(log, pop.report, "none")

\* AddonsUpgradeStep: cluster_status, then run(input_cluster) up to
\* populate_existing_report
RunUpgradeAddons ==
    /\ MayStart(ADDONS_UPGRADE_STEP, FALSE)
    /\ \E status \in ClusterStatuses, total \in {0, 1} :
         LET file == reports[clusters[idx].cluster]
             started == Append(events, Ev("run", ADDONS_UPGRADE_STEP))
             checked == ClusterStatusReport(file, status)
             progress == IF total = 0 THEN NewProgress ELSE Increment(NewProgress, "updated")
         IN StepEnds(ADDONS_UPGRADE_STEP,
                     IF status # ACTIVE_STATUS THEN NotActiveStop(started, file, status)
                     ELSE Populated(started, checked,
                                    PopulateAddonsReport(checked, total, progress,
                                                         "Addons updated; Check addonsupdate table")))

\* NodesUpgradeStep: cluster_status, then run(input_cluster) up to
\* populate_existing_report
RunUpgradeNodes ==
    /\ MayStart(NODE_GROUPS_UPGRADE_STEP, FALSE)
    /\ \E status \in ClusterStatuses, total \in {0, 1} :
         LET file == reports[clusters[idx].cluster]
             started == Append(events, Ev("run", NODE_GROUPS_UPGRADE_STEP))
             checked == ClusterStatusReport(file, status)
             progress == IF total = 0 THEN NewProgress ELSE Increment(NewProgress, "failed")
         IN StepEnds(NODE_GROUPS_UPGRADE_STEP,
                     IF status # ACTIVE_STATUS THEN NotActiveStop(started, file, status)
                     ELSE Populated(started, checked,
                                    PopulateNodesReport(checked, total, progress,
                                                        "Node groups updated; Check nodegroupsupdate table")))

NextPipeline ==
    \/ RunServiceAccount
    \/ RunVeleroPlugin
    \/ RunVeleroBackup
    \/ RunVeleroRestore
    \/ RunUpgradeControlPlane
    \/ RunUpgradeAddons
    \/ RunUpgradeNodes

SpecPipeline == InitPipeline /\ [][NextPipeline]_vars

\* ------------------------------------------------------------------------
\* Properties of the backup, restore and upgrade steps
\* ------------------------------------------------------------------------
\* The report fields a step assigns
AssignedBy(step_name) ==
    CASE step_name = SERVICE_ACCOUNT_STEP ->
             {"ServiceAccount", "ServiceAccountStatus", "Message"}
      [] step_name = VELERO_PLUGIN_STEP -> {"PodStatus", "Message"}
      [] step_name = VELERO_BACKUP_STEP ->
             {"BackupStatus", "BackupName", "BackupLocation", "ClusterVersion", "Message"}
      [] step_name = VELERO_RESTORE_STEP ->
             {"RestoreStatus", "BackupName", "RestoreBackupLocation", "Message"}
      [] step_name = CONTROL_PLANE_UPGRADE_STEP ->
             {"ClusterStatus", "ClusterUpdateStatus", "Message"}
      [] step_name = ADDONS_UPGRADE_STEP ->
             {"ClusterStatus", "TotalAddons", "AddonsUpgraded", "AddonsFailed",
              "AddonsNotActive", "AddonsNotSupported", "AddonsNotInInput",
              "AddonsRunningLatest", "Message"}
      [] step_name = NODE_GROUPS_UPGRADE_STEP ->
             {"ClusterStatus", "TotalNodeGroups", "NodeGroupsUpdated", "NodeGroupsFailed",
              "NodeGroupsRunningDesired", "NodeGroupsNotActive", "Message"}
      [] OTHER -> {}

\* A step that finds the report file leaves every field it does not assign
FieldsSurvive ==
    \A c \in DOMAIN reports :
        reports[c].exists =>
            /\ reports'[c].exists
            /\ \A f \in DOMAIN reports[c].content :
                   f \notin AssignedBy(step') =>
                       /\ f \in DOMAIN reports'[c].content
                       /\ reports'[c].content[f] = reports[c].content[f]

\* C15: in one pipeline run every step after the one that created a
\* cluster's report reads the existing report and merges into it: a field an
\* earlier step wrote and the later step does not assign is still there with
\* the same value after the later step's write; no step replaces the file.
C15_ReportReadModifyWrite == [][FieldsSurvive]_vars

\* C15 witness: the report of a cluster after the service-account, plugin and
\* backup steps, holding the fields of all three.
C15_Witness ==
    /\ step = VELERO_BACKUP_STEP
    /\ reports[clusters[idx].cluster].exists
    /\ {"ServiceAccountStatus", "PodStatus", "BackupStatus"}
           \subseteq DOMAIN reports[clusters[idx].cluster].content

\* The step that ran last invoked its Velero script; the log ends with the call
VeleroScriptRan ==
    /\ step \in {VELERO_BACKUP_STEP, VELERO_RESTORE_STEP}
    /\ Len(events) > 0
    /\ events[Len(events)].kind = "script"
    /\ events[Len(events)].arg \in {"create_backup.sh", "create_restore.sh"}

\* The status field of the step that ran last
VeleroStatusField == IF step = VELERO_BACKUP_STEP THEN "BackupStatus" ELSE "RestoreStatus"

\* C16: the Velero backup and restore steps treat the action as successful,
\* and let the run continue, only when the script exits 0 and the reported
\* phase is Completed; for any other phase or a non-zero exit they write a
\* failure status and message into the cluster's report and abort the run.
C16_CompletedOrAbort ==
    VeleroScriptRan =>
        LET content == reports[clusters[idx].cluster].content
            completed == /\ events[Len(events)].rc = 0
                         /\ content[VeleroStatusField] = "Completed"
        IN /\ pending = "none" => completed
           /\ ~completed =>
                  /\ pending = ExecutionUtilityStop.pending
                  /\ pc = "exited"
                  /\ content[VeleroStatusField] # "Completed"
                  /\ "Message" \in DOMAIN content

\* The cluster has no managed node group, at least one Fargate profile, and
\* no Fargate profile whose selectors include the Velero namespace
FargateOnlyWithoutNamespace ==
    /\ Len(args.facts.node_groups) = 0
    /\ Len(args.facts.fargate_profiles) > 0
    /\ \A i \in DOMAIN args.facts.fargate_profiles :
           \A j \in DOMAIN args.facts.fargate_profiles[i].selectors :
               args.facts.fargate_profiles[i].selectors[j]
                   # clusters[idx].backup_options.velero_namespace

\* The step that ran last attempted its action on a Backup item, and the EKS
\* API answered its calls
ActionAttempted ==
    /\ step \in {VELERO_PLUGIN_STEP, VELERO_BACKUP_STEP}
    /\ IsBackup(clusters[idx])
    /\ reports[clusters[idx].cluster].exists
    /\ events[Len(events)].arg # ApiError

\* C17: the plugin install script and the backup script are never invoked
\* for a cluster with no managed node groups, at least one Fargate profile
\* and no profile whose selectors include the Velero namespace; the step
\* records a failure with an explicit message and fails instead.
C17_FargateGuard ==
    ("backup_options" \in DOMAIN clusters[idx] /\ FargateOnlyWithoutNamespace) =>
        /\ \A k \in DOMAIN events :
               events[k].arg \notin {"install_velero_plugin.sh", "create_backup.sh"}
        /\ ActionAttempted =>
               LET content == reports[clusters[idx].cluster].content
               IN /\ pc = "exited"
                  /\ pending = ExecutionUtilityStop.pending
                  /\ content[IF step = VELERO_PLUGIN_STEP THEN "PodStatus"
                             ELSE "BackupStatus"] = "Failure"
                  /\ content["Message"] \in
                         {"Fargate profile not present for namespace.",
                          "Fargate profile not present for namespace. Velero plugin may not be installed."}

\* C17 witness: the backup step has run for a Backup item of a Fargate-only
\* cluster without the namespace: Failure recorded, the process exits.
C17_Witness ==
    /\ "backup_options" \in DOMAIN clusters[idx]
    /\ FargateOnlyWithoutNamespace
    /\ ActionAttempted
    /\ step = VELERO_BACKUP_STEP
    /\ reports[clusters[idx].cluster].content["BackupStatus"] = "Failure"
    /\ pc = "exited"

\* C18: the backup name the Velero backup and restore steps pass to the
\* Velero scripts and record in the report is always lower-case, both when
\* the work item supplied it and when it is the default
\* {isoDate}-{region}-{clusterName} built because none was supplied.
C18_BackupNameLowerCase ==
    /\ \A k \in DOMAIN events :
           events[k].arg \in {"create_backup.sh", "create_restore.sh"} =>
               events[k].backup_name = Lower(events[k].backup_name)
    /\ \A c \in DOMAIN reports :
           (reports[c].exists /\ "BackupName" \in DOMAIN reports[c].content
               /\ reports[c].content["BackupName"] # "N/A") =>
               reports[c].content["BackupName"] = Lower(reports[c].content["BackupName"])

\* ------------------------------------------------------------------------
\* Properties of the defaults of the Request Normalizer
\* ------------------------------------------------------------------------
\* C19: for every UPGRADE item whose UpgradeOptions gives no
\* DesiredEKSVersion - the key absent, or present with a null value - the
\* normalized item's DesiredEKSVersion is the run-level default; a supplied
\* non-null value is kept unchanged.
C19_DesiredVersionDefaulted ==
    (phase = "returned" /\ args.lambda_name = "upgrade" /\ ~result.raised) =>
        \A i \in DOMAIN result.clusters :
            LET supplied == args.event.Clusters.Upgrade[i].Options.value.DesiredEKSVersion
                normalized == result.clusters[i].Options.value.DesiredEKSVersion
            IN normalized = IF supplied \in {Missing, None}
                            THEN DefaultOptions("upgrade").DesiredEKSVersion
                            ELSE supplied

\* ------------------------------------------------------------------------
\* The backup lambda as a long-lived process: the layer module is imported
\* once, then lambda_handler is invoked any number of times while the
\* calendar advances between invocations
\* ------------------------------------------------------------------------
MaxDay == 3

\* str(date) for a day of June 2024
DateStr(day) == "2024-06-" \o (IF day < 10 THEN "0" ELSE "") \o ToString(day)

\* The module has just been imported: today is the day current_date holds
InitProcess ==
    /\ EngineIdle
    /\ args \in {[lambda_name |-> "backup",
                  event |-> Event(<<>>, <<>>, b, <<>>, <<>>),
                  today |-> day] :
                     b \in SeqsUpTo(BackupItems, MaxClusters),
                     day \in {d \in 1..MaxDay : DateStr(d) = current_date}}
    /\ result = <<>>
    /\ phase = "idle"

\* Midnight passes while no invocation is running
DayPasses ==
    /\ phase = "idle"
    /\ args.today < MaxDay
    /\ args' = [args EXCEPT !.today = @ + 1]
    /\ UNCHANGED <<result, phase>>
    /\ UNCHANGED engineVars

\* lambda_handler returns; the process stays loaded for the next event
HandlerReturns ==
    /\ phase = "returned"
    /\ \E b \in SeqsUpTo(BackupItems, MaxClusters) :
           args' = [args EXCEPT !.event = Event(<<>>, <<>>, b, <<>>, <<>>)]
    /\ result' = <<>>
    /\ phase' = "idle"
    /\ UNCHANGED engineVars

NextProcess ==
    \/ DayPasses
    \/ CallGetInputClusters
    \/ HandlerReturns

SpecProcess == InitProcess /\ [][NextProcess]_vars

\* C20: a BACKUP item without BackupName gets the default BackupName
\* {date}-{region}-{clusterName} where date is the calendar date on which
\* the normalization call runs, for every call of the process's lifetime,
\* also one made on a later day than the day the module was loaded.
C20_DefaultBackupNameDateOfCall ==
    (phase = "returned" /\ ~result.raised) =>
        \A i \in DOMAIN result.clusters :
            LET item == args.event.Clusters.Backup[i]
                normalized == result.clusters[i]
            IN Get(item.Options.value.BackupName) = None =>
                   normalized.Options.value.BackupName =
                       DateStr(args.today) \o "-" \o Str(Get(item.Region))
                                           \o "-" \o Str(Get(item.ClusterName))

\* ------------------------------------------------------------------------
\* Target Directory under concurrent onboarding (lambdas/api/lambda_function.py,
\* lambdas/layer/python/dynamodb.py). Two onboarding requests run in separate
\* processes; the batch writer sends their put_item calls one item at a time
\* as far as the table can tell, so the writes interleave freely. The table
\* is keyed by (Account, Region) and a put replaces the item of its key.
\* ------------------------------------------------------------------------
OnboardAccounts == {"111"}
OnboardRegions == {"us-east-1", "us-west-2"}
OnboardRoles == {None, "RoleA"}

\* api.models.Tenant.dict()
Tenant(account_id, region, role) ==
    [AccountId |-> account_id, Region |-> region, ExecutionRoleName |-> role]

Tenants ==
    {Tenant(a, r, n) : a \in OnboardAccounts, r \in OnboardRegions, n \in OnboardRoles}

TableKeys == OnboardAccounts \X OnboardRegions

KeyOf(item) == <<item.Account, item.Region>>

\* Table.put_item: overwrite by key
TablePutItem(table, item) ==
    IF \E i \in DOMAIN table : KeyOf(table[i]) = KeyOf(item)
    THEN [i \in DOMAIN table |->
             IF KeyOf(table[i]) = KeyOf(item) THEN item ELSE table[i]]
    ELSE Append(table, item)

\* Mutant: the item is written without the tenant's role
OnboardItem_RoleDropped(tenant) ==
    InputTarget(Get(tenant.AccountId), Get(tenant.Region), None)

\* The Item that DynamodbTargets.onboard_tenants builds from a tenant
OnboardItem(tenant) ==
    InputTarget(Get(tenant.AccountId), Get(tenant.Region),
                Get(tenant.ExecutionRoleName))

\* Two requests are about to write: a batch, and a single tenant
InitDirectory ==
    /\ EngineIdle
    /\ args \in {[queues |-> <<batch, single>>,
                  written |-> [k \in TableKeys |-> Missing],
                  writes |-> [k \in TableKeys |-> 0]] :
                    batch \in SeqsUpTo(Tenants, MaxTenants),
                    single \in {<<t>> : t \in Tenants}}
    /\ result = [table |-> <<>>, scan |-> <<>>]
    /\ phase = "idle"

\* One put_item of request p reaches the table
WriterPutItem ==
    \E p \in DOMAIN args.queues :
        /\ Len(args.queues[p]) > 0
        /\ LET tenant == Head(args.queues[p])
               item == OnboardItem(tenant)
               key == <<tenant.AccountId, tenant.Region>>
           IN /\ result' = [table |-> TablePutItem(result.table, item),
                            scan |-> <<>>]
              /\ args' = [args EXCEPT !.queues[p] = Tail(@),
                                      !.written[key] = tenant.ExecutionRoleName,
                                      !.writes[key] = @ + 1]
        /\ UNCHANGED phase
        /\ UNCHANGED engineVars

\* DynamodbTargets.get_locations_using_clusters([]) reads the table
ScanDirectory ==
    /\ result.scan = <<>>
    /\ result' = [result EXCEPT !.scan =
                     GetLocationsUsingClusters(<<>>, Directory("ok", result.table))]
    /\ UNCHANGED <<args, phase>>
    /\ UNCHANGED engineVars

NextDirectory ==
    \/ WriterPutItem
    \/ ScanDirectory

SpecDirectory == InitDirectory /\ [][NextDirectory]_vars

Onboarded == {k \in TableKeys : args.writes[k] > 0}

\* C21: after any interleaving of onboarding writes the table holds exactly
\* one record per onboarded (account, region) key, carrying the role of the
\* last write to that key, and a directory scan resolves each key to exactly
\* one Target with Accounts = [account], Regions = [region] and
\* ExecutionRoleName the written role, or the default role when the written
\* role was null.
C21_LastWriteWinsRoundTrip ==
    /\ \A k \in TableKeys :
           LET at == {i \in DOMAIN result.table : KeyOf(result.table[i]) = k}
           IN IF k \in Onboarded
              THEN /\ Cardinality(at) = 1
                   /\ \A i \in at : result.table[i].ExecutionRoleName = args.written[k]
              ELSE at = {}
    /\ result.scan # <<>> =>
           /\ ~result.scan.raised
           /\ Len(result.scan.targets) = Cardinality(Onboarded)
           /\ \A k \in Onboarded :
                  \E j \in DOMAIN result.scan.targets :
                      LET target == result.scan.targets[j]
                      IN /\ target.Accounts = <<k[1]>>
                         /\ target.Regions = <<k[2]>>
                         /\ target.ExecutionRoleName =
                                IF args.written[k] = None
                                THEN DEFAULT_TARGET_SSM_EXECUTION_ROLE
                                ELSE args.written[k]

\* Both requests wrote the same key, the last write carried a null role, and
\* the scan has run
C21_Witness ==
    /\ result.scan # <<>>
    /\ \A p \in DOMAIN args.queues : args.queues[p] = <<>>
    /\ \E k \in TableKeys : args.writes[k] >= 2 /\ args.written[k] = None
    /\ Len(result.table) = 2

\* ------------------------------------------------------------------------
\* Properties of explicit targets
\* ------------------------------------------------------------------------
\* What C22 says of every field but the two limits: one Target per entry of
\* the Targets array, in input order, duplicates kept
ExplicitTargetsOneToOne ==
    /\ Len(result.targets) = Len(args.event.Targets)
    /\ \A i \in DOMAIN args.event.Targets :
           LET entry == args.event.Targets[i]
               target == result.targets[i]
           IN /\ target.Accounts = <<entry.AccountId>>
              /\ target.Regions = <<entry.Region>>
              /\ target.ExecutionRoleName =
                     IF Get(entry.ExecutionRoleName) = None
                     THEN DEFAULT_TARGET_SSM_EXECUTION_ROLE
                     ELSE entry.ExecutionRoleName

ExplicitTargetsResolved ==
    phase = "returned" /\ Len(args.event.Targets) > 0 /\ ~result.raised

\* C22: with an explicit Targets array the resolver returns exactly one
\* Target per entry, in input order and without deduplication, with
\* Accounts = [AccountId], Regions = [Region], ExecutionRoleName the entry's
\* role or the default role constant, TargetLocationMaxConcurrency the
\* default max-concurrency constant and TargetLocationMaxErrors the default
\* max-errors constant.
C22_ExplicitTargetsOneToOne ==
    ExplicitTargetsResolved =>
        /\ ExplicitTargetsOneToOne
        /\ \A i \in DOMAIN result.targets :
               /\ result.targets[i].TargetLocationMaxConcurrency =
                      DEFAULT_TARGET_LOCATION_MAX_CONCURRENCY
               /\ result.targets[i].TargetLocationMaxErrors =
                      DEFAULT_TARGET_LOCATION_MAX_ERRORS

\* ------------------------------------------------------------------------
\* The cluster filter step of the automation document
\* (scripts/summary/filter_clusters_config.py, scripts/lib/baseconfig.py)
\* ------------------------------------------------------------------------
\* The dict that check_for_clusters prints
FoundOutput(count) ==
    IF count = 0
    THEN [AccountClustersInInput |-> "Not Present"]
    ELSE [AccountClustersInInput |-> ToString(count) \o " EKS Clusters Found"]

\* How a run of the script ends: what it printed, and the exit code
ScriptEnd(output, exit_code) == [output |-> output, exit_code |-> exit_code]

\* FilterClustersConfig.check_for_clusters; an ExecutionUtility.stop() inside
\* get_relevant_clusters ends the process with sys.exit(1) before anything
\* is printed
CheckForClusters(step_, cluster_file, input_clusters_required) ==
    LET relevant_input_clusters ==
            GetRelevantClusters(step_, cluster_file, TRUE, input_clusters_required)
        count == Len(relevant_input_clusters.clusters)
    IN IF relevant_input_clusters.pending # "none"
       THEN ScriptEnd(Missing, ExecutionUtilityStop.code)
       ELSE ScriptEnd(FoundOutput(count), 0)

InitFilterConfig ==
    /\ EngineIdle
    /\ args \in {[step |-> [input_clusters |-> i, account_id |-> h.account_id,
                            region |-> h.region],
                  cluster_file |-> f,
                  input_clusters_required |-> rq] :
                    i \in SeqsUpTo(InputDicts, MaxClusters), h \in Hosts,
                    f \in ClusterFiles, rq \in BOOLEAN}
    /\ result = <<>>
    /\ phase = "idle"

\* FilterClustersConfig.start(input_clusters_required)
StartFilterClustersConfig ==
    /\ phase = "idle"
    /\ result' = CheckForClusters(args.step, args.cluster_file,
                                  args.input_clusters_required)
    /\ phase' = "returned"
    /\ UNCHANGED args
    /\ UNCHANGED engineVars

NextFilterConfig == StartFilterClustersConfig

SpecFilterConfig == InitFilterConfig /\ [][NextFilterConfig]_vars

\* The host sees no clusters at all
HostSeesNoClusters == Len(args.cluster_file) = 0

\* Input clusters are given (or required) and none of them is a cluster of
\* this host
NoInputClusterMatches ==
    /\ args.input_clusters_required \/ Len(args.step.input_clusters) > 0
    /\ \A i \in DOMAIN args.step.input_clusters :
           LET c == args.step.input_clusters[i]
           IN ~ /\ Get(c.ClusterName) \in SeqToSet(args.cluster_file)
                /\ Get(c.AccountId) = args.step.account_id
                /\ Get(c.Region) = args.step.region

\* C23: when the cluster filter step finds zero relevant clusters on a host,
\* because no input cluster matches or because the host sees no clusters at
\* all, it reports AccountClustersInInput = Not Present and ends normally,
\* never through the failure exit used for execution errors.
C23_NoClustersIsNotAnError ==
    (phase = "returned" /\ (HostSeesNoClusters \/ NoInputClusterMatches)) =>
        /\ result.exit_code = 0
        /\ result.output = [AccountClustersInInput |-> "Not Present"]

\* ------------------------------------------------------------------------
\* Athena query polling (lambdas/layer/python/athena.py). The loop is
\* followed poll by poll, because the status of the query changes between
\* polls; result holds the position of the call, args the query.
\* ------------------------------------------------------------------------
QUERY_RETRY_COUNT == 10

\* The states the service reports that the loop tells apart: the two it
\* compares with, and two it does not
QueryStates == {"SUCCEEDED", "FAILED", "RUNNING", "CANCELLED"}

PollEv(status) == [kind |-> "poll", status |-> status]
SleepEv(seconds) == [kind |-> "sleep", seconds |-> seconds]
StopEv == [kind |-> "stop"]

Polling(pc_, i, log) == [pc |-> pc_, i |-> i, log |-> log]

\* Mutant: the wait between polls does not grow
PollOnce_ConstantSleep(i, query_execution_status, log) ==
    LET polled == Append(log, PollEv(query_execution_status))
    IN IF query_execution_status = "SUCCEEDED"
       THEN Polling("returned", i, polled)
       ELSE IF query_execution_status = "FAILED"
       THEN Polling("raised", i, polled)
       ELSE Polling(IF i < QUERY_RETRY_COUNT THEN "poll" ELSE "time_over",
                    i + 1, Append(polled, SleepEv(1)))

\* One pass of the body of the for loop of athena_query_execution, for the
\* value i of range(1, 1 + QUERY_RETRY_COUNT)
PollOnce(i, query_execution_status, log) ==
    LET polled == Append(log, PollEv(query_execution_status))
    IN IF query_execution_status = "SUCCEEDED"
       THEN Polling("returned", i, polled)
       ELSE IF query_execution_status = "FAILED"
       THEN Polling("raised", i, polled)
       ELSE Polling(IF i < QUERY_RETRY_COUNT THEN "poll" ELSE "time_over",
                    i + 1, Append(polled, SleepEv(i)))

\* start_query_execution has returned the execution id
InitAthena ==
    /\ EngineIdle
    /\ args = [query_execution_id |-> "q-1"]
    /\ result = Polling("poll", 1, <<>>)
    /\ phase = "called"

\* get_query_execution and the rest of the loop body
GetQueryExecution ==
    /\ result.pc = "poll"
    /\ \E query_execution_status \in QueryStates :
           result' = PollOnce(result.i, query_execution_status, result.log)
    /\ phase' = IF result'.pc \in {"returned", "raised"} THEN "returned" ELSE phase
    /\ UNCHANGED args
    /\ UNCHANGED engineVars

\* The loop ran out: stop_query_execution, then raise
StopQueryExecution ==
    /\ result.pc = "time_over"
    /\ result' = Polling("raised", result.i, Append(result.log, StopEv))
    /\ phase' = "returned"
    /\ UNCHANGED args
    /\ UNCHANGED engineVars

NextAthena ==
    \/ GetQueryExecution
    \/ StopQueryExecution

SpecAthena == InitAthena /\ [][NextAthena]_vars

\* The call keeps running: a lambda is never suspended for ever in the
\* middle of the loop
SpecAthenaFair == SpecAthena /\ WF_vars(NextAthena)

IsPoll(e) == e.kind = "poll"

Terminal(e) == IsPoll(e) /\ e.status \in {"SUCCEEDED", "FAILED"}

PollsOf(log) == {j \in DOMAIN log : IsPoll(log[j])}

StopsOf(log) == {j \in DOMAIN log : log[j].kind = "stop"}

C24_Inv ==
    LET log == result.log
        n == Len(log)
    IN /\ Cardinality(PollsOf(log)) <= QUERY_RETRY_COUNT
       \* the i-th poll is followed by a wait of i seconds when it is
       \* unsuccessful, and by nothing when it is SUCCEEDED or FAILED
       /\ \A j \in DOMAIN log :
              /\ (j % 2 = 1 /\ j <= 2 * QUERY_RETRY_COUNT) => IsPoll(log[j])
              /\ j % 2 = 0 =>
                     /\ log[j] = SleepEv(j \div 2)
                     /\ ~Terminal(log[j - 1])
              /\ Terminal(log[j]) => j = n
              /\ log[j].kind = "stop" => j = n /\ j = 2 * QUERY_RETRY_COUNT + 1
       /\ Cardinality(StopsOf(log)) <= 1
       \* it returns exactly at a SUCCEEDED poll and raises exactly at a
       \* FAILED poll or after the one stop_query_execution
       /\ (n > 0 /\ log[n] = PollEv("SUCCEEDED")) <=> result.pc = "returned"
       /\ (n > 0 /\ (log[n] = PollEv("FAILED") \/ log[n] = StopEv))
              <=> result.pc = "raised"
       /\ result.pc = "time_over" <=>
              (n = 2 * QUERY_RETRY_COUNT /\ StopsOf(log) = {})

\* C24: athena_query_execution polls the query status at most
\* QUERY_RETRY_COUNT (10) times, waiting i seconds after the i-th
\* unsuccessful poll; it returns the execution id at the first SUCCEEDED
\* poll, raises at the first FAILED poll, and if neither is seen within the
\* bound it issues exactly one stop_query_execution and then raises, so it
\* terminates whatever sequence of statuses the service reports.
C24_BoundedPolling ==
    /\ [](C24_Inv)
    /\ <>(result.pc \in {"returned", "raised"})

\* Ten unsuccessful polls, the query stopped once, the call raised
C24_Witness ==
    /\ result.pc = "raised"
    /\ Len(result.log) = 2 * QUERY_RETRY_COUNT + 1
    /\ result.log[Len(result.log)] = StopEv
    /\ result.log[2 * QUERY_RETRY_COUNT] = SleepEv(QUERY_RETRY_COUNT)

\* ------------------------------------------------------------------------
\* Paged list calls (lambdas/layer/python/dynamodb.py, scripts/lib/ekshelper.py).
\* The service holds pages; a page carries its items and the cursor of the
\* page that follows it, or no cursor. A request without a cursor is
\* answered with the first page, a request with a cursor with the page the
\* cursor names.
\* ------------------------------------------------------------------------
MaxPages == 3

PageContents == {<<>>, <<"a">>, <<"b", "a">>}

\* A response without LastEvaluatedKey / nextToken, and one with it
NoCursor == <<>>

Cursor(k) == <<k>>

Page(items, cursor) == [Items |-> items, cursor |-> cursor]

\* The lists of pages a service may hold: every cursor points forward
PageLists ==
    UNION {{p \in [1..n -> {Page(c, k) : c \in PageContents, k \in {NoCursor} \cup {Cursor(j) : j \in 2..n}}] :
               \A i \in 1..n : p[i].cursor = NoCursor \/ p[i].cursor[1] > i} :
           n \in 1..MaxPages}

\* dynamodb.scan / eks_client.list_clusters, as the service answers
ServicePage(pages, cursor) == pages[IF cursor = NoCursor THEN 1 ELSE cursor[1]]

Listed(items, requests) == [items |-> items, requests |-> requests]

RECURSIVE ScanLoop(_, _, _, _)
\* The while loop of DynamodbTargets.get_locations_using_clusters;
\* requests is the ExclusiveStartKey of each scan that was sent
ScanLoop(pages, start_key, locations, requests) ==
    LET response == ServicePage(pages, start_key)
        extended == locations \o response.Items
        sent == Append(requests, start_key)
    IN IF response.cursor = NoCursor
       THEN Listed(extended, sent)
       ELSE ScanLoop(pages, response.cursor, extended, sent)

\* Mutant: the list call stops after its first page
ListLoop_FirstPageOnly(pages, next_token, cluster_list, requests) ==
    Listed(cluster_list \o ServicePage(pages, next_token).Items,
           Append(requests, next_token))

RECURSIVE ListLoop(_, _, _, _)
\* The while loop of EKSHelper.list_clusters; requests is the nextToken of
\* each request that was sent
ListLoop(pages, next_token, cluster_list, requests) ==
    LET response == ServicePage(pages, next_token)
        extended == cluster_list \o response.Items
        sent == Append(requests, next_token)
    IN IF response.cursor = NoCursor
       THEN Listed(extended, sent)
       ELSE ListLoop(pages, response.cursor, extended, sent)

InitPaging ==
    /\ EngineIdle
    /\ args \in {[pages |-> p] : p \in PageLists}
    /\ result = <<>>
    /\ phase = "idle"

\* The scan of get_locations_using_clusters
CallScan ==
    /\ phase = "idle"
    /\ result' = [op |-> "scan"] @@ ScanLoop(args.pages, NoCursor, <<>>, <<>>)
    /\ phase' = "returned"
    /\ UNCHANGED args
    /\ UNCHANGED engineVars

\* EKSHelper.list_clusters()
CallListClusters ==
    /\ phase = "idle"
    /\ result' = [op |-> "list_clusters"] @@ ListLoop(args.pages, NoCursor, <<>>, <<>>)
    /\ phase' = "returned"
    /\ UNCHANGED args
    /\ UNCHANGED engineVars

NextPaging ==
    \/ CallScan
    \/ CallListClusters

SpecPaging == InitPaging /\ [][NextPaging]_vars

RECURSIVE PagesFrom(_, _)
\* The pages the cursors lead through, from page k to the first page without
\* a cursor
PagesFrom(pages, k) ==
    IF pages[k].cursor = NoCursor
    THEN <<k>>
    ELSE <<k>> \o PagesFrom(pages, pages[k].cursor[1])

RECURSIVE ItemsOf(_, _, _)
ItemsOf(pages, visited, j) ==
    IF j > Len(visited)
    THEN <<>>
    ELSE pages[visited[j]].Items \o ItemsOf(pages, visited, j + 1)

\* C25: the directory scan and the EKS list call request pages until a
\* response carries no continuation cursor, passing each response's cursor to
\* the next request; the result holds every item of every page exactly once
\* in page order, and the loop ends right after the first page without a
\* cursor.
C25_PagedToCompletion ==
    phase = "returned" =>
        LET visited == PagesFrom(args.pages, 1)
        IN /\ Len(result.requests) = Len(visited)
           /\ \A j \in DOMAIN visited :
                  result.requests[j] =
                      IF j = 1 THEN NoCursor ELSE args.pages[visited[j - 1]].cursor
           /\ result.items = ItemsOf(args.pages, visited, 1)

\* Three pages were fetched, the middle one empty, and a page that no cursor
\* leads to was never asked for
C25_Witness ==
    /\ phase = "returned"
    /\ result.op = "scan"
    /\ Len(args.pages) = 3
    /\ result.requests = <<NoCursor, Cursor(3)>>
    /\ result.items = <<"b", "a", "a">>

\* ------------------------------------------------------------------------
\* InputCluster objects and their node groups (scripts/lib/inputcluster.py,
\* scripts/lib/wfutils.py). UpgradeOptions._managed_node_groups is a list
\* made once, in the class body; an instance that was never assigned a list
\* of its own reads and appends to that one list.
\* ------------------------------------------------------------------------
\* ManagedNodeGroup.__init__
ManagedNodeGroupOf(input_node_group) ==
    [name |-> Get(input_node_group.Name),
     launch_template_version |-> Get(input_node_group.LaunchTemplateVersion)]

\* The heap after some constructions: the list of the class, and for each
\* object whether it has a list of its own
Heap(class_list, objects) == [class_list |-> class_list, objects |-> objects]

OwnList(list) == [own |-> TRUE, list |-> list]

ClassList == [own |-> FALSE, list |-> <<>>]

\* obj.upgrade_options.managed_node_groups, read after the batch was built
ManagedNodeGroupsOf(heap, i) ==
    IF heap.objects[i].own THEN heap.objects[i].list ELSE heap.class_list

\* UpgradeOptions.managed_node_groups setter, for a new instance
SetManagedNodeGroups(heap, managed_node_groups) ==
    IF Len(managed_node_groups) = 0
    THEN Heap(heap.class_list, Append(heap.objects, OwnList(<<>>)))
    ELSE Heap(heap.class_list \o
                  [j \in DOMAIN managed_node_groups |->
                      ManagedNodeGroupOf(managed_node_groups[j])],
              Append(heap.objects, ClassList))

RECURSIVE BuildInputClusters(_, _, _)
\* ClusterUtility.from_dicts: one InputCluster per dict, in order, each with
\* a new UpgradeOptions
BuildInputClusters(cluster_dicts, i, heap) ==
    IF i > Len(cluster_dicts)
    THEN heap
    ELSE BuildInputClusters(cluster_dicts, i + 1,
                            SetManagedNodeGroups(heap, cluster_dicts[i].UpgradeOptions.ManagedNodeGroups))

NodeGroupInputs ==
    {<<>>, <<ManagedNodeGroup("ng-1")>>, <<ManagedNodeGroup("ng-2")>>,
     <<ManagedNodeGroup("ng-2"), ManagedNodeGroup("ng-1")>>}

\* A new process is handed a batch of work items
InitInputClusters ==
    /\ EngineIdle
    /\ args \in {[clusters |-> c] :
                    c \in SeqsUpTo({[ClusterName |-> "a",
                                      UpgradeOptions |-> [ManagedNodeGroups |-> g]] :
                                       g \in NodeGroupInputs}, MaxInputs)}
    /\ result = Heap(<<>>, <<>>)
    /\ phase = "idle"

\* ClusterUtility.from_dicts(clusters)
CallFromDicts ==
    /\ phase = "idle"
    /\ result' = BuildInputClusters(args.clusters, 1, result)
    /\ phase' = "returned"
    /\ UNCHANGED args
    /\ UNCHANGED engineVars

NextInputClusters == CallFromDicts

SpecInputClusters == InitInputClusters /\ [][NextInputClusters]_vars

\* C26: for any sequence of InputCluster objects built from a batch of work
\* items, each object's upgrade_options.managed_node_groups holds exactly the
\* node groups listed in its own work item, in order, never entries from a
\* work item constructed earlier or later.
C26_OwnNodeGroupsOnly ==
    phase = "returned" =>
        /\ Len(result.objects) = Len(args.clusters)
        /\ \A i \in DOMAIN args.clusters :
               ManagedNodeGroupsOf(result, i) =
                   [j \in DOMAIN args.clusters[i].UpgradeOptions.ManagedNodeGroups |->
                       ManagedNodeGroupOf(args.clusters[i].UpgradeOptions.ManagedNodeGroups[j])]

\* ------------------------------------------------------------------------
\* Aggregation of query result rows (lambdas/layer/python/athena.py,
\* queries.py)
\* ------------------------------------------------------------------------
MaxRows == 3

METADATA_TABLE_NAME == "metadata"

\* What get_athena_query returns that get_clusters branches on: the table
\* and multi_row
AthenaQueryKinds ==
    {[table_name |-> METADATA_TABLE_NAME, multi_row |-> FALSE],
     [table_name |-> "addons", multi_row |-> TRUE],
     [table_name |-> "backup", multi_row |-> FALSE]}

\* A result row: the (account, region, cluster) it names, and the rest of
\* its columns
Row(partition, data) == [partition |-> partition, data |-> data]

ResultRows == {Row(p, d) : p \in {<<"111", "us-east-1", "a">>, <<"111", "us-east-1", "b">>},
                           d \in {"d1", "d2"}}

\* Details of a record: {} , {key: dict} or {key: list}
NoDetails == [kind |-> "empty", items |-> <<>>]

DictDetails(data) == [kind |-> "dict", items |-> <<data>>]

ListDetails(items) == [kind |-> "list", items |-> items]

Aggregate(raised, cluster_list, partition_set) ==
    [raised |-> raised, cluster_list |-> cluster_list, partition_set |-> partition_set]

\* ClusterRepository.get_existing_record: the positions of the list that
\* match the partition
ExistingRecords(cluster_list, partition_object) ==
    {i \in DOMAIN cluster_list : cluster_list[i].partition = partition_object}

\* list.remove(existing_record)
Remove(cluster_list, i) ==
    SubSeq(cluster_list, 1, i - 1) \o SubSeq(cluster_list, i + 1, Len(cluster_list))

\* The body of the for loop of ClusterRepository.get_clusters
ProcessRow(query, row, acc) ==
    IF row.partition \in acc.partition_set
    THEN LET found == ExistingRecords(acc.cluster_list, row.partition)
         IN IF Cardinality(found) > 1
            THEN Aggregate("Duplicate records found in the cluster list",
                           acc.cluster_list, acc.partition_set)
            ELSE IF found = {}
            THEN Aggregate("Record is present in set but not in list",
                           acc.cluster_list, acc.partition_set)
            ELSE LET i == CHOOSE i \in found : TRUE
                     existing_record == acc.cluster_list[i]
                     removed == Remove(acc.cluster_list, i)
                 IN IF existing_record.Details.kind = "empty"
                    THEN Aggregate(None, removed, acc.partition_set)
                    ELSE Aggregate(None,
                                   Append(removed,
                                          [existing_record EXCEPT !.Details =
                                              ListDetails(Append(@.items, row.data))]),
                                   acc.partition_set)
    ELSE Aggregate(None,
                   Append(acc.cluster_list,
                          [partition |-> row.partition,
                           Details |-> IF query.table_name # METADATA_TABLE_NAME
                                       THEN IF query.multi_row
                                            THEN ListDetails(<<row.data>>)
                                            ELSE DictDetails(row.data)
                                       ELSE NoDetails]),
                   acc.partition_set \cup {row.partition})

RECURSIVE GetClustersFrom(_, _, _, _)
\* ClusterRepository.get_clusters over the rows after the header row
GetClustersFrom(query, cluster_rows, i, acc) ==
    IF i > Len(cluster_rows) \/ acc.raised # None
    THEN acc
    ELSE GetClustersFrom(query, cluster_rows, i + 1,
                         ProcessRow(query, cluster_rows[i], acc))

InitRepository ==
    /\ EngineIdle
    /\ args \in {[query |-> q, cluster_rows |-> r] :
                    q \in AthenaQueryKinds, r \in SeqsUpTo(ResultRows, MaxRows)}
    /\ result = <<>>
    /\ phase = "idle"

\* repository.get_clusters()
CallGetClusters ==
    /\ phase = "idle"
    /\ result' = GetClustersFrom(args.query, args.cluster_rows, 1,
                                 Aggregate(None, <<>>, {}))
    /\ phase' = "returned"
    /\ UNCHANGED args
    /\ UNCHANGED engineVars

NextRepository == CallGetClusters

SpecRepository == InitRepository /\ [][NextRepository]_vars

\* C27: in get_clusters, after any sequence of result rows, the result list
\* holds exactly one record for each distinct (account, region, cluster,
\* date) partition seen, so a partition of the dedup set always has its
\* record in the list and the error 'Record is present in set but not in
\* list' is never raised.
C27_OneRecordPerPartition ==
    phase = "returned" =>
        /\ result.raised = None
        /\ \A p \in {args.cluster_rows[i].partition : i \in DOMAIN args.cluster_rows} :
               Cardinality(ExistingRecords(result.cluster_list, p)) = 1
        /\ Len(result.cluster_list) =
               Cardinality({args.cluster_rows[i].partition : i \in DOMAIN args.cluster_rows})

\* ------------------------------------------------------------------------
\* The Progress of a bulk step, followed item by item
\* (scripts/upgrade/upgrade_addons.py, scripts/upgrade/upgrade_nodes.py,
\* scripts/lib/wfutils.py). args holds the items listed for each cluster of
\* the run; result the cluster and item the loop has reached, the Progress
\* of this cluster's loop and the report written after it.
\* ------------------------------------------------------------------------
BulkLoop(cluster, i, progress, report) ==
    [cluster |-> cluster, i |-> i, progress |-> progress, report |-> report]

\* run() has listed the items of the first cluster and made its Progress()
InitProgress ==
    /\ EngineIdle
    /\ args \in {[kind |-> ADDONS_UPGRADE_STEP, batches |-> b,
                  input_addons |-> ia, desired_eks_version |-> "1.29"] :
                     b \in SeqsUpTo(AddonLists, MaxClusters) \ {<<>>},
                     ia \in {<<"coredns">>, DEFAULT_ADDONS_FOR_UPDATE}}
                \cup
                {[kind |-> NODE_GROUPS_UPGRADE_STEP, batches |-> b,
                  input_addons |-> <<>>, desired_eks_version |-> "1.29"] :
                     b \in SeqsUpTo(NodeGroupLists, MaxClusters) \ {<<>>}}
    /\ result = BulkLoop(1, 0, NewProgress, NoReport)
    /\ phase = "loop"

ItemsListed == args.batches[result.cluster]

\* One pass of the for loop over the listed addons or node groups
UpdateNextItem ==
    /\ phase = "loop"
    /\ result.i < Len(ItemsListed)
    /\ LET item == ItemsListed[result.i + 1]
           r == IF args.kind = ADDONS_UPGRADE_STEP
                THEN AddonUpdate(item, args.input_addons, result.progress)
                ELSE NodeGroupUpdate(item, args.desired_eks_version, result.progress)
       IN result' = [result EXCEPT !.i = @ + 1, !.progress = r.progress]
    /\ UNCHANGED <<args, phase>>
    /\ UNCHANGED engineVars

\* populate_existing_report after the loop (or at once, when nothing is
\* listed)
PopulateExistingReport ==
    /\ phase = "loop"
    /\ result.i = Len(ItemsListed)
    /\ LET existing_report == ReportOf([Message |-> <<>>])
           total == Len(ItemsListed)
       IN result' = [result EXCEPT !.report =
              IF args.kind = ADDONS_UPGRADE_STEP
              THEN PopulateAddonsReport(existing_report, total, result.progress,
                                        "Addons updated").report
              ELSE PopulateNodesReport(existing_report, total, result.progress,
                                       "Node groups updated").report]
    /\ phase' = "reported"
    /\ UNCHANGED args
    /\ UNCHANGED engineVars

\* start() goes on to the next cluster: run() makes a new Progress()
RunNextCluster ==
    /\ phase = "reported"
    /\ result.cluster < Len(args.batches)
    /\ result' = BulkLoop(result.cluster + 1, 0, NewProgress, NoReport)
    /\ phase' = "loop"
    /\ UNCHANGED args
    /\ UNCHANGED engineVars

NextProgress ==
    \/ UpdateNextItem
    \/ PopulateExistingReport
    \/ RunNextCluster

SpecProgress == InitProgress /\ [][NextProgress]_vars

ProgressSum(progress) ==
    progress["updated"] + progress["failed"] + progress["no_action"]
        + progress["not_active"] + progress["not_requested"]
        + progress["not_supported"]

TotalField == IF args.kind = ADDONS_UPGRADE_STEP THEN "TotalAddons" ELSE "TotalNodeGroups"

C28_Inv ==
    \* the counters of this cluster's loop sum to the items processed so far
    /\ ProgressSum(result.progress) = result.i
    /\ result.i = 0 => result.progress = NewProgress
    \* at the end they sum to the total written to the report
    /\ phase = "reported" =>
           /\ result.report.content[TotalField] = ProgressSum(result.progress)
           /\ result.report.content[TotalField] = Len(ItemsListed)

C28_Step ==
    IF result'.cluster = result.cluster
    THEN \* within one cluster's loop no counter decreases, and an item that
         \* is processed adds one to exactly one counter
         /\ \A k \in ProgressCounters : result'.progress[k] >= result.progress[k]
         /\ result'.i = result.i + 1 =>
                \E k \in ProgressCounters :
                    /\ result'.progress[k] = result.progress[k] + 1
                    /\ \A o \in ProgressCounters \ {k} :
                           result'.progress[o] = result.progress[o]
         /\ result'.i = result.i => result'.progress = result.progress
    ELSE \* the next cluster starts from a Progress of its own
         result'.progress = NewProgress

\* C28: a new Progress with all counters at zero is used for each cluster's
\* addon or node-group loop; counters never decrease, each processed item
\* increments exactly one of updated, failed, noAction, notActive,
\* notRequested, notSupported by one, and so at the end of the loop those
\* counters sum to the number of items processed, which is the total written
\* to the report.
C28_ProgressCounts == [](C28_Inv) /\ [][C28_Step]_vars

\* The second cluster's loop has ended with two items in two different
\* counters, after a first cluster that counted items too
C28_Witness ==
    /\ phase = "reported"
    /\ result.cluster = 2
    /\ Len(args.batches[1]) > 0
    /\ result.report.content[TotalField] = 2
    /\ \E k \in ProgressCounters : result.progress[k] = 1

\* ------------------------------------------------------------------------
\* Safety of the directory filter
\* ------------------------------------------------------------------------
\* C29: with no explicit Targets and a non-empty WorkItem list, every
\* resolved Target's (account, region) is the (accountId, region) of at least
\* one WorkItem, so automation is never dispatched to an onboarded tenant for
\* which no cluster was requested.
C29_TargetsOnlyForRequestedPairs ==
    (/\ phase = "returned"
     /\ args.event.Targets = <<>>
     /\ Len(args.eks_clusters) > 0
     /\ ~result.raised) =>
        \A t \in DOMAIN result.targets :
            \E w \in DOMAIN args.eks_clusters :
                /\ result.targets[t].Accounts = <<Get(args.eks_clusters[w].AccountId)>>
                /\ result.targets[t].Regions = <<Get(args.eks_clusters[w].Region)>>

\* ------------------------------------------------------------------------
\* The default-version strategy of the addon update
\* (scripts/upgrade/upgrade_addons.py, scripts/lib/addon.py)
\* ------------------------------------------------------------------------
\* DefaultVersionAddonUpdate.get_update_version; all_versions is what
\* get_addon_versions lists for the desired Kubernetes version
DefaultGetUpdateVersion(all_versions) == GetDefaultAddonVersion(all_versions)

\* An ACTIVE, requested addon that is not in MINOR_VERSION_UPDATES
InitDefaultAddon ==
    /\ EngineIdle
    /\ args \in {[addon_name |-> "coredns", addon_version |-> v,
                  all_versions |-> a, exit |-> x] :
                    v \in CurrentAddonVersions,
                    a \in SeqsUpTo(AvailableAddonVersions, MaxVersions),
                    x \in {0, 1}}
    /\ result = <<>>
    /\ phase = "idle"

\* addon_updater.execute_addon_script(addon_version, role, progress)
CallExecuteAddonScript ==
    /\ phase = "idle"
    /\ result' = ExecuteAddonScript(
                     AddonRec(args.addon_name, ACTIVE_STATUS, args.addon_version,
                              DefaultGetUpdateVersion(args.all_versions), args.exit),
                     NewProgress)
    /\ phase' = "returned"
    /\ UNCHANGED args
    /\ UNCHANGED engineVars

NextDefaultAddon == CallExecuteAddonScript

SpecDefaultAddon == InitDefaultAddon /\ [][NextDefaultAddon]_vars

NoDefaultAvailable ==
    \A i \in DOMAIN args.all_versions : ~args.all_versions[i].defaultVersion

\* C30: the addon update script is never invoked with an undefined target
\* version: when the default-version strategy finds no default among the
\* versions available for the desired Kubernetes version, the addon is not
\* updated.
C30_NoUpdateWithoutVersion ==
    phase = "returned" =>
        /\ result.script => result.row.UpdatedVersion # None
        /\ NoDefaultAvailable =>
               /\ ~result.script
               /\ result.progress["updated"] = 0

====
